---- MODULE Spec2Model ----
(***************************************************************************)
(* Model of package dao's log records (k9s): LogItem parsing, cloning and  *)
(* rendering, the log-modifier registry, colour assignment, and the        *)
(* LogItems collection's Render and Filter.                                *)
(*                                                                         *)
(* Text ([]byte / string) is valid UTF-8, held as the sequence of its       *)
(* runes, each a one-character string; a rune that has no string of its    *)
(* own is a named token, 0x1b being "ESC".  Lengths and offsets the code   *)
(* takes in bytes are worked out from the runes' encoded lengths.  Where   *)
(* the code cuts or stores single bytes (NewLogItem's b[:len(b)-1], the    *)
(* buffer Clone copies and l.Bytes[i] = c), the []byte is the sequence of  *)
(* its bytes, numbers in 0..255; UTF8 gives the bytes of a text.           *)
(***************************************************************************)
EXTENDS Integers, Sequences, FiniteSets, TLC

VARIABLES
    pc,            \* which operation ran last
    raw,           \* NewLogItem: the raw bytes handed in
    item,          \* NewLogItem / NewLogItemFromString: the record returned
    crashed,       \* TRUE once a call has panicked (the process is gone)
    texts,         \* escape substitution: the message and its successive rewrites
    logModifiers,  \* the registry: name -> modifier
    regLog,        \* history: the RegisterLogModifier calls made, in order
    lastRender,    \* LogItem.Render: the last call's arguments and result
    items,         \* a LogItems collection
    rendered,      \* LogItems.Render: the caller's buffer, and the last
                   \* call's settings and outcome
    query,         \* LogItems.Filter: the pattern and settings of the session
    filtered,      \* LogItems.Filter: the result for the pattern
    inverted,      \* LogItems.Filter: the result for the inverse query
    heap,          \* Clone: the byte buffers, by address
    orig,          \* Clone: the record cloned; its Bytes is a buffer address
    clone,         \* Clone: the record returned; its Bytes is a buffer address
    shadow         \* history: what each record's bytes must read, and the
                   \* number of writes made

parseVars == <<raw, item, crashed>>
escVars == <<texts>>
regVars == <<logModifiers, regLog>>
itemVars == <<lastRender>>
itemsVars == <<items, rendered>>
filterVars == <<query, filtered, inverted>>
cloneVars == <<heap, orig, clone, shadow>>

vars == <<pc, parseVars, escVars, regVars, itemVars, itemsVars, filterVars,
          cloneVars>>

----------------------------------------------------------------------------
(* Bounds of the model *)

MaxRaw == 6        \* longest raw line handed to NewLogItem
MaxMsg == 5        \* longest message handed to the escape substitution
MaxPasses == 2     \* how many times the substitution is applied in a row
MaxRegs == 2       \* how many RegisterLogModifier calls follow start-up
MaxItems == 2      \* longest collection handed to LogItems.Render and Filter
MaxQuery == 2      \* longest pattern drawn from the query alphabet
MaxWrites == 2     \* how many bytes are overwritten after a Clone
MaxBuffer == 3     \* longest buffer handed to LogItems.Render

----------------------------------------------------------------------------
(* Text helpers *)

Range(s) == {s[i] : i \in 1..Len(s)}

SeqsUpTo(S, n) == UNION {[1..k -> S] : k \in 0..n}

Drop(s, k) == SubSeq(s, k + 1, Len(s))

Take(s, k) == SubSeq(s, 1, k)

\* index of the first occurrence of c in s, 0 when there is none
RECURSIVE IndexFrom(_, _, _)
IndexFrom(s, c, i) ==
    IF i > Len(s) THEN 0
    ELSE IF s[i] = c THEN i
    ELSE IndexFrom(s, c, i + 1)

IndexOf(s, c) == IndexFrom(s, c, 1)

----------------------------------------------------------------------------
(* Runes *)

Upper == <<"A", "B", "C", "D", "E", "F", "G", "H", "I", "J", "K", "L", "M",
           "N", "O", "P", "Q", "R", "S", "T", "U", "V", "W", "X", "Y", "Z">>

Lower == <<"a", "b", "c", "d", "e", "f", "g", "h", "i", "j", "k", "l", "m",
           "n", "o", "p", "q", "r", "s", "t", "u", "v", "w", "x", "y", "z">>

Pos(table, c) == CHOOSE i \in 1..Len(table) : table[i] = c

\* The runes a text of the model is made of, each a one-character string.
\* A rune that cannot be written as a string is a named token: "ESC" (0x1b),
\* "VT" (0x0b), "BACKTICK" (0x60), "NEL" (U+0085), "NBSP" (U+00A0), and
\* "U+hhhh" for the rune of that code point: the other spaces of Unicode,
\* letters outside ASCII together with the letters they fold to (U+00C9 and
\* U+00E9, U+0391 and U+03B1, U+017F for s, U+212A for k), the replacement
\* character and a rune of four bytes.
Printable ==
    <<" ", "!", "\"", "#", "$", "%", "&", "'", "(", ")", "*", "+", ",",
      "-", ".", "/", "0", "1", "2", "3", "4", "5", "6", "7", "8", "9", ":",
      ";", "<", "=", ">", "?", "@", "A", "B", "C", "D", "E", "F", "G", "H",
      "I", "J", "K", "L", "M", "N", "O", "P", "Q", "R", "S", "T", "U", "V",
      "W", "X", "Y", "Z", "[", "\\", "]", "^", "_", "BACKTICK", "a", "b",
      "c", "d", "e", "f", "g", "h", "i", "j", "k", "l", "m", "n", "o", "p",
      "q", "r", "s", "t", "u", "v", "w", "x", "y", "z", "{", "|", "}", "~">>

\* int(r): the code point of a rune
CharCode ==
    [c \in Range(Printable) |-> 31 + Pos(Printable, c)]
        @@ ("\t" :> 9 @@ "\n" :> 10 @@ "VT" :> 11 @@ "\f" :> 12 @@ "\r" :> 13
            @@ "ESC" :> 27 @@ "NEL" :> 133 @@ "NBSP" :> 160
            @@ "U+1680" :> 5760 @@ "U+2000" :> 8192 @@ "U+2001" :> 8193
            @@ "U+2002" :> 8194 @@ "U+2003" :> 8195 @@ "U+2004" :> 8196
            @@ "U+2005" :> 8197 @@ "U+2006" :> 8198 @@ "U+2007" :> 8199
            @@ "U+2008" :> 8200 @@ "U+2009" :> 8201 @@ "U+200A" :> 8202
            @@ "U+2028" :> 8232 @@ "U+2029" :> 8233 @@ "U+202F" :> 8239
            @@ "U+205F" :> 8287 @@ "U+3000" :> 12288
            @@ "U+00C9" :> 201 @@ "U+00E9" :> 233 @@ "U+017F" :> 383
            @@ "U+0391" :> 913 @@ "U+03B1" :> 945 @@ "U+212A" :> 8490
            @@ "U+FFFD" :> 65533 @@ "U+1F600" :> 128512)

CodePoint(c) == CharCode[c]

\* utf8.RuneLen: the number of bytes a rune takes in a []byte or a string
RuneLen(cp) ==
    IF cp < 128 THEN 1 ELSE IF cp < 2048 THEN 2 ELSE IF cp < 65536 THEN 3 ELSE 4

\* the number of bytes the first k runes of a text take, which is the byte
\* offset of the rune behind them
RECURSIVE ByteOffset(_, _)
ByteOffset(line, k) ==
    IF k = 0 THEN 0
    ELSE ByteOffset(line, k - 1) + RuneLen(CodePoint(line[k]))

\* utf8.EncodeRune: the bytes a rune is stored as
EncodeRune(cp) ==
    IF cp < 128 THEN <<cp>>
    ELSE IF cp < 2048 THEN <<192 + (cp \div 64), 128 + (cp % 64)>>
    ELSE IF cp < 65536
    THEN <<224 + (cp \div 4096), 128 + ((cp \div 64) % 64), 128 + (cp % 64)>>
    ELSE <<240 + (cp \div 262144), 128 + ((cp \div 4096) % 64),
           128 + ((cp \div 64) % 64), 128 + (cp % 64)>>

\* []byte(text): the bytes of a text, rune after rune
RECURSIVE UTF8(_)
UTF8(text) ==
    IF Len(text) = 0 THEN <<>>
    ELSE EncodeRune(CodePoint(text[1])) \o UTF8(Tail(text))

----------------------------------------------------------------------------
(* Splitting and joining bytes *)

\* space := []byte(" ")
space == UTF8(<<" ">>)

\* bytes.Split(s, space): the pieces of s between the space bytes, at
\* least one piece
RECURSIVE Split(_)
Split(s) ==
    LET k == IndexOf(s, space[1])
    IN  IF k = 0 THEN <<s>>
        ELSE <<Take(s, k - 1)>> \o Split(Drop(s, k))

\* bytes.Join(cols, space)
RECURSIVE Join(_)
Join(cols) ==
    IF Len(cols) = 0 THEN <<>>
    ELSE IF Len(cols) = 1 THEN cols[1]
    ELSE cols[1] \o space \o Join(Tail(cols))

----------------------------------------------------------------------------
(* LogItem *)

NoItem == [Pod |-> <<>>, Container |-> <<>>, Timestamp |-> <<>>,
           SingleContainer |-> FALSE, Bytes |-> <<>>]

\* NewLogItem with the timestamp left in Bytes (cols[0:] joined).
NewLogItemKeepsTimestamp(b) ==
    IF Len(b) = 0 THEN [panic |-> TRUE, item |-> NoItem]
    ELSE LET cols == Split(Take(b, Len(b) - 1))
         IN  [panic |-> FALSE,
              item  |-> [NoItem EXCEPT !.Timestamp = cols[1],
                                       !.Bytes = Join(cols)]]

\* NewLogItem(b), b being bytes: b[:len(b)-1] panics (slice bounds out of
\* range) on an empty b; otherwise the last byte is dropped whatever it is,
\* be it the last byte of a longer rune.  Timestamp and Bytes are bytes too.
NewLogItem(b) ==
    IF Len(b) = 0 THEN [panic |-> TRUE, item |-> NoItem]
    ELSE LET cols == Split(Take(b, Len(b) - 1))
         IN  [panic |-> FALSE,
              item  |-> [NoItem EXCEPT !.Timestamp = cols[1],
                                       !.Bytes = Join(Tail(cols))]]

\* time.Now().String(): some wall-clock text, not under the program's control
Clock == {UTF8(<<"t", "1">>), UTF8(<<"t", "2">>)}

\* NewLogItemFromString(s), s and now being the bytes of the two strings
NewLogItemFromString(s, now) ==
    [NoItem EXCEPT !.Bytes = s, !.Timestamp = now]

----------------------------------------------------------------------------
(* The escape substitution of LogItem.Render *)

Letters ==
    {"a", "b", "c", "d", "e", "f", "g", "h", "i", "j", "k", "l", "m",
     "n", "o", "p", "q", "r", "s", "t", "u", "v", "w", "x", "y", "z",
     "A", "B", "C", "D", "E", "F", "G", "H", "I", "J", "K", "L", "M",
     "N", "O", "P", "Q", "R", "S", "T", "U", "V", "W", "X", "Y", "Z"}

Digits == {"0", "1", "2", "3", "4", "5", "6", "7", "8", "9"}

\* the character class [a-zA-Z0-9_,;: \-\."#] of escPattern
TagChars == Letters \cup Digits \cup {"_", ",", ";", ":", " ", "-", ".", "\"", "#"}

\* first index >= i of s whose character is not in S, Len(s) + 1 if none
RECURSIVE SkipWhile(_, _, _)
SkipWhile(s, S, i) ==
    IF i > Len(s) THEN i
    ELSE IF s[i] \in S THEN SkipWhile(s, S, i + 1)
    ELSE i

\* escPattern anchored at i: "[", one or more class characters, any number
\* of "[", then "]".  The index of that "]", or 0 when there is no match at i.
EscMatchEnd(s, i) ==
    IF s[i] # "[" THEN 0
    ELSE LET k == SkipWhile(s, TagChars, i + 1)
             m == SkipWhile(s, {"["}, k)
         IN  IF k > i + 1 /\ m <= Len(s) /\ s[m] = "]" THEN m ELSE 0

\* escPattern.ReplaceAll(s, "$1[]"): leftmost matches, left to right, none
\* overlapping; each match is replaced by its group 1 followed by "[]".
RECURSIVE EscFrom(_, _)
EscFrom(s, i) ==
    IF i > Len(s) THEN <<>>
    ELSE LET e == EscMatchEnd(s, i)
         IN  IF e = 0 THEN <<s[i]>> \o EscFrom(s, i + 1)
             ELSE SubSeq(s, i, e - 1) \o <<"[", "]">> \o EscFrom(s, e + 1)

\* the substitution with the template "$1]": matches are put back as found
EscReplaceAllKeepsMatch(s) == s

EscReplaceAll(s) == EscFrom(s, 1)

----------------------------------------------------------------------------
(* Colourizing and the rendering of one record *)

TimestampWidth == 30
TimestampColor == 106

DigitChars == <<"0", "1", "2", "3", "4", "5", "6", "7", "8", "9">>

\* %d of a non-negative int
RECURSIVE Decimal(_)
Decimal(n) ==
    IF n < 10 THEN <<DigitChars[n + 1]>>
    ELSE Decimal(n \div 10) \o <<DigitChars[(n % 10) + 1]>>

\* color.ANSIColorize(text, c): the text between the 256-colour escape
\* sequence for c and the reset sequence.
ANSIColorize(text, c) ==
    <<"ESC", "[", "3", "8", ";", "5", ";">> \o Decimal(c) \o <<"m">>
        \o text \o <<"ESC", "[", "0", "m">>

Spaces(n) == [i \in 1..n |-> " "]

\* for i := len(t); i < 30; i++ { t += " " }, len(t) being a number of bytes
PadTimestamp(t) ==
    IF ByteOffset(t, Len(t)) < TimestampWidth
    THEN t \o Spaces(TimestampWidth - ByteOffset(t, Len(t)))
    ELSE t

\* LogItem.Render up to the modifier: the bytes the record is assembled into
AssembleLine(l, paint, showTime) ==
    LET ts  == IF showTime
               THEN ANSIColorize(PadTimestamp(l.Timestamp), TimestampColor) \o <<" ">>
               ELSE <<>>
        pod == IF l.Pod # <<>>
               THEN ANSIColorize(l.Pod, paint) \o <<":">>
               ELSE <<>>
        co  == IF ~l.SingleContainer /\ l.Container # <<>>
               THEN ANSIColorize(l.Container, paint) \o <<" ">>
               ELSE <<>>
    IN  ts \o pod \o co \o EscReplaceAll(l.Bytes)

----------------------------------------------------------------------------
(* Log modifiers and their registry *)

Nil == "nil"

ZapPretty == "ZapPrettyLogModifier"

\* zappretty.PrettyLine(l, true), a collaborator outside this package: it
\* fails on a line that is not a JSON object, and otherwise hands back a
\* reformatted line, which stands here as the line behind a mark.
PrettyLine(l) ==
    IF l = <<>> \/ l[1] # "{"
    THEN [err |-> TRUE, pretty |-> <<>>]
    ELSE [err |-> FALSE, pretty |-> <<"~", " ">> \o l]

\* ZapPrettyLogModifier.Modify
ZapPrettyModify(line) ==
    LET r == PrettyLine(line)
    IN  IF r.err THEN line ELSE r.pretty

\* the modifiers a caller registers besides the built-in one: M1 puts "1:"
\* in front of the line it is given, M2 puts "2:" in front of it
UserModifiers == {"M1", "M2"}

Modify(m, line) ==
    IF m = ZapPretty THEN ZapPrettyModify(line)
    ELSE IF m = "M1" THEN <<"1", ":">> \o line
    ELSE <<"2", ":">> \o line

\* func init(): RegisterLogModifier("zap-pretty", NewZapPrettyLogModifier())
InitRegistry == [n \in {"zap-pretty"} |-> ZapPretty]

\* logModifiers[name], nil for a name that is not a key of the map
Lookup(reg, name) == IF name \in DOMAIN reg THEN reg[name] ELSE Nil

\* a registration that leaves an existing entry alone
SetModifierIfAbsent(reg, name, m) ==
    IF name \in DOMAIN reg THEN reg
    ELSE [n \in DOMAIN reg \cup {name} |-> IF n = name THEN m ELSE reg[n]]

\* logModifiers[name] = modifier
SetModifier(reg, name, m) ==
    [n \in DOMAIN reg \cup {name} |-> IF n = name THEN m ELSE reg[n]]

\* LogItem.Render(paint, showTime, modifier) reading the registry reg
Render(l, paint, showTime, modifier, reg) ==
    LET line == AssembleLine(l, paint, showTime)
        logModifier == Lookup(reg, modifier)
    IN  IF logModifier # Nil THEN Modify(logModifier, line) ELSE line

NoRender == [it |-> NoItem, paint |-> 0, showTime |-> FALSE, modifier |-> "",
             at |-> 0, out |-> <<>>]

----------------------------------------------------------------------------
(* Colour assignment and the LogItems collection *)

ColorSpace == 256
BandBase == 207
BandWidth == 10

RECURSIVE RuneSum(_)
RuneSum(n) == IF Len(n) = 0 THEN 0 ELSE CodePoint(n[1]) + RuneSum(Tail(n))

\* colorFor(n), r being what rand.Intn(10) returns if it is called
colorFor(n, r) ==
    LET c == RuneSum(n) % ColorSpace
    IN  IF c = 0 THEN BandBase + r ELSE c

\* LogItem.ID
ID(l) == IF l.Pod # <<>> THEN l.Pod ELSE l.Container

\* LogItems.Lines: every record rendered with paint 0
Lines(l, showTime, modifier, reg) ==
    [i \in 1..Len(l) |-> Render(l[i], 0, showTime, modifier, reg)]

\* LogItems.StrLines: the same lines as strings
StrLines(l, showTime, modifier, reg) ==
    [i \in 1..Len(l) |-> Render(l[i], 0, showTime, modifier, reg)]

\* the colour worked out anew for every record
ColorOfNoCache(colors, info, r) == colorFor(info, r)

\* color, ok := colors[info]; if !ok { color = colorFor(info) }
ColorOf(colors, info, r) ==
    IF info \in DOMAIN colors THEN colors[info] ELSE colorFor(info, r)

\* the loop of LogItems.Render from record i on, writing into the caller's
\* buffer ll; rnd[i] is the random draw available to iteration i.  paints
\* lists the colours of the lines written so far.  Writing ll[i] beyond the
\* length of ll is an index out of range: the call panics and the lines
\* written before stay in the buffer.
RECURSIVE RenderFrom(_, _, _, _, _, _, _, _, _)
RenderFrom(l, i, colors, showTime, modifier, reg, rnd, ll, paints) ==
    IF i > Len(l) THEN [ll |-> ll, paints |-> paints, panic |-> FALSE]
    ELSE LET info  == ID(l[i])
             color == ColorOf(colors, info, rnd[i])
             next  == [n \in DOMAIN colors \cup {info} |->
                          IF n = info THEN color ELSE colors[n]]
             line  == Render(l[i], color, showTime, modifier, reg)
         IN  IF i > Len(ll)
             THEN [ll |-> ll, paints |-> paints, panic |-> TRUE]
             ELSE RenderFrom(l, i + 1, next, showTime, modifier, reg, rnd,
                             [ll EXCEPT ![i] = line], Append(paints, color))

\* LogItems.Render(showTime, modifier, ll)
ItemsRender(l, showTime, modifier, reg, rnd, ll) ==
    RenderFrom(l, 1, <<>>, showTime, modifier, reg, rnd, ll, <<>>)

\* a line left in a buffer by an earlier call
OldLine == <<"o", "l", "d">>

\* make([][]byte, n), filled by an earlier call
Buffer(n) == [i \in 1..n |-> OldLine]

\* the settings of the last call and what it left: the buffer, the colours
\* of the lines it wrote, whether it panicked
NoRendered == [showTime |-> FALSE, modifier |-> "",
               call |-> [ll |-> <<>>, paints |-> <<>>, panic |-> FALSE]]

----------------------------------------------------------------------------
(* Filtering *)

\* IsInverseSelector(q): q begins with the inverse sentinel, one character
IsInverseSelector(q) == Len(q) >= 1 /\ q[1] = "!"

\* IsFuzzySelector(q): q begins with the fuzzy sentinel, two characters
IsFuzzySelector(q) == Len(q) >= 2 /\ q[1] = "-" /\ q[2] = "f"

\* unicode.IsSpace
WhiteSpace ==
    {"\t", "\n", "VT", "\f", "\r", " ", "NEL", "NBSP", "U+1680", "U+2000",
     "U+2001", "U+2002", "U+2003", "U+2004", "U+2005", "U+2006", "U+2007",
     "U+2008", "U+2009", "U+200A", "U+2028", "U+2029", "U+202F", "U+205F",
     "U+3000"}

\* strings.TrimSpace
RECURSIVE TrimSpace(_)
TrimSpace(q) ==
    IF Len(q) = 0 THEN q
    ELSE IF q[1] \in WhiteSpace THEN TrimSpace(Tail(q))
    ELSE IF q[Len(q)] \in WhiteSpace THEN TrimSpace(Take(q, Len(q) - 1))
    ELSE q

\* simple case folding
Fold(c) == IF c \in Range(Upper) THEN Lower[Pos(Upper, c)] ELSE c

(* regexp.Compile: the parser of regexp/syntax (Go 1.22) under the Perl
   flags.  A pattern is parsed into a tree of nodes named after the
   package's Op values. *)

\* unicode.SimpleFold: the runes a rune of the model is equal to under
\* (?i), itself left out
FoldOrbit(cp) ==
    IF cp \in {75, 107, 8490} THEN {75, 107, 8490} \ {cp}
    ELSE IF cp \in {83, 115, 383} THEN {83, 115, 383} \ {cp}
    ELSE IF cp >= 65 /\ cp <= 90 THEN {cp + 32}
    ELSE IF cp >= 97 /\ cp <= 122 THEN {cp - 32}
    ELSE IF cp \in {201, 233} THEN {201, 233} \ {cp}
    ELSE IF cp \in {913, 945} THEN {913, 945} \ {cp}
    ELSE {}

\* the tables of package unicode a rune of the model is in: its general
\* category, the class of that category, and its script
Tables(cp) ==
    IF (cp >= 65 /\ cp <= 90) \/ cp \in {201, 8490} THEN {"L", "Lu", "Latin"}
    ELSE IF (cp >= 97 /\ cp <= 122) \/ cp \in {233, 383} THEN {"L", "Ll", "Latin"}
    ELSE IF cp = 913 THEN {"L", "Lu", "Greek"}
    ELSE IF cp = 945 THEN {"L", "Ll", "Greek"}
    ELSE IF cp >= 48 /\ cp <= 57 THEN {"N", "Nd", "Common"}
    ELSE IF cp < 32 \/ cp = 133 THEN {"C", "Cc", "Common"}
    ELSE IF cp = 5760 THEN {"Z", "Zs", "Ogham"}
    ELSE IF cp \in {32, 160, 8239, 8287, 12288} \/ (cp >= 8192 /\ cp <= 8202)
    THEN {"Z", "Zs", "Common"}
    ELSE IF cp = 8232 THEN {"Z", "Zl", "Common"}
    ELSE IF cp = 8233 THEN {"Z", "Zp", "Common"}
    ELSE IF cp \in {65533, 128512} THEN {"S", "So", "Common"}
    ELSE IF cp \in {40, 91, 123} THEN {"P", "Ps", "Common"}
    ELSE IF cp \in {41, 93, 125} THEN {"P", "Pe", "Common"}
    ELSE IF cp = 45 THEN {"P", "Pd", "Common"}
    ELSE IF cp = 95 THEN {"P", "Pc", "Common"}
    ELSE IF cp = 36 THEN {"S", "Sc", "Common"}
    ELSE IF cp \in {43, 60, 61, 62, 124, 126} THEN {"S", "Sm", "Common"}
    ELSE IF cp \in {94, 96} THEN {"S", "Sk", "Common"}
    ELSE {"P", "Po", "Common"}

\* the names \p and \P take: "Any", the keys of unicode.Categories and the
\* keys of unicode.Scripts (Unicode 15)
UnicodeTables ==
    {"Any",
     "C", "Cc", "Cf", "Co", "Cs", "L", "Ll", "Lm", "Lo", "Lt", "Lu", "M", "Mc",
     "Me", "Mn", "N", "Nd", "Nl", "No", "P", "Pc", "Pd", "Pe", "Pf", "Pi", "Po",
     "Ps", "S", "Sc", "Sk", "Sm", "So", "Z", "Zl", "Zp", "Zs",
     "Adlam", "Ahom", "Anatolian_Hieroglyphs", "Arabic", "Armenian", "Avestan",
     "Balinese", "Bamum", "Bassa_Vah", "Batak", "Bengali", "Bhaiksuki",
     "Bopomofo", "Brahmi", "Braille", "Buginese", "Buhid",
     "Canadian_Aboriginal", "Carian", "Caucasian_Albanian", "Chakma", "Cham",
     "Cherokee", "Chorasmian", "Common", "Coptic", "Cuneiform", "Cypriot",
     "Cypro_Minoan", "Cyrillic", "Deseret", "Devanagari", "Dives_Akuru",
     "Dogra", "Duployan", "Egyptian_Hieroglyphs", "Elbasan", "Elymaic",
     "Ethiopic", "Georgian", "Glagolitic", "Gothic", "Grantha", "Greek",
     "Gujarati", "Gunjala_Gondi", "Gurmukhi", "Han", "Hangul",
     "Hanifi_Rohingya", "Hanunoo", "Hatran", "Hebrew", "Hiragana",
     "Imperial_Aramaic", "Inherited", "Inscriptional_Pahlavi",
     "Inscriptional_Parthian", "Javanese", "Kaithi", "Kannada", "Katakana",
     "Kawi", "Kayah_Li", "Kharoshthi", "Khitan_Small_Script", "Khmer",
     "Khojki", "Khudawadi", "Lao", "Latin", "Lepcha", "Limbu", "Linear_A",
     "Linear_B", "Lisu", "Lycian", "Lydian", "Mahajani", "Makasar",
     "Malayalam", "Mandaic", "Manichaean", "Marchen", "Masaram_Gondi",
     "Medefaidrin", "Meetei_Mayek", "Mende_Kikakui", "Meroitic_Cursive",
     "Meroitic_Hieroglyphs", "Miao", "Modi", "Mongolian", "Mro", "Multani",
     "Myanmar", "Nabataean", "Nag_Mundari", "Nandinagari", "New_Tai_Lue",
     "Newa", "Nko", "Nushu", "Nyiakeng_Puachue_Hmong", "Ogham", "Ol_Chiki",
     "Old_Hungarian", "Old_Italic", "Old_North_Arabian", "Old_Permic",
     "Old_Persian", "Old_Sogdian", "Old_South_Arabian", "Old_Turkic",
     "Old_Uyghur", "Oriya", "Osage", "Osmanya", "Pahawh_Hmong", "Palmyrene",
     "Pau_Cin_Hau", "Phags_Pa", "Phoenician", "Psalter_Pahlavi", "Rejang",
     "Runic", "Samaritan", "Saurashtra", "Sharada", "Shavian", "Siddham",
     "SignWriting", "Sinhala", "Sogdian", "Sora_Sompeng", "Soyombo",
     "Sundanese", "Syloti_Nagri", "Syriac", "Tagalog", "Tagbanwa", "Tai_Le",
     "Tai_Tham", "Tai_Viet", "Takri", "Tamil", "Tangsa", "Tangut", "Telugu",
     "Thaana", "Thai", "Tibetan", "Tifinagh", "Tirhuta", "Toto", "Ugaritic",
     "Vai", "Vithkuqi", "Wancho", "Warang_Citi", "Yezidi", "Yi",
     "Zanabazar_Square"}

\* the characters of a name, as one string
RECURSIVE Str(_)
Str(name) == IF name = <<>> THEN "" ELSE name[1] \o Str(Tail(name))

\* the character at i, "" past the end
At(q, i) == IF i >= 1 /\ i <= Len(q) THEN q[i] ELSE ""

Failed(msg) == [err |-> msg, re |-> Nil, i |-> 0]

Parsed(re, i) == [err |-> Nil, re |-> re, i |-> i]

Literal(cp, f) == [op |-> "Literal", cp |-> cp, fold |-> f.fold]

Concat(subs) == [op |-> "Concat", subs |-> subs]

\* a group of a character class: ranges of code points, or a table of
\* package unicode ("" for none), taken or excluded
Group(ranges, neg) == [ranges |-> ranges, neg |-> neg, table |-> ""]

CharClass(groups, neg, f) ==
    [op |-> "CharClass", items |-> groups, neg |-> neg, fold |-> f.fold]

\* \d \s \w and their negations
PerlWord == <<(<<48, 57>>), (<<65, 90>>), (<<95, 95>>), (<<97, 122>>)>>

PerlGroup ==
    "d" :> Group(<<(<<48, 57>>)>>, FALSE)
    @@ "D" :> Group(<<(<<48, 57>>)>>, TRUE)
    @@ "s" :> Group(<<(<<9, 10>>), (<<12, 13>>), (<<32, 32>>)>>, FALSE)
    @@ "S" :> Group(<<(<<9, 10>>), (<<12, 13>>), (<<32, 32>>)>>, TRUE)
    @@ "w" :> Group(PerlWord, FALSE) @@ "W" :> Group(PerlWord, TRUE)

\* [:name:]
PosixGroup ==
    <<"a", "l", "n", "u", "m">> :> <<(<<48, 57>>), (<<65, 90>>), (<<97, 122>>)>>
    @@ <<"a", "l", "p", "h", "a">> :> <<(<<65, 90>>), (<<97, 122>>)>>
    @@ <<"a", "s", "c", "i", "i">> :> <<(<<0, 127>>)>>
    @@ <<"b", "l", "a", "n", "k">> :> <<(<<9, 9>>), (<<32, 32>>)>>
    @@ <<"c", "n", "t", "r", "l">> :> <<(<<0, 31>>), (<<127, 127>>)>>
    @@ <<"d", "i", "g", "i", "t">> :> <<(<<48, 57>>)>>
    @@ <<"g", "r", "a", "p", "h">> :> <<(<<33, 126>>)>>
    @@ <<"l", "o", "w", "e", "r">> :> <<(<<97, 122>>)>>
    @@ <<"p", "r", "i", "n", "t">> :> <<(<<32, 126>>)>>
    @@ <<"p", "u", "n", "c", "t">> :>
           <<(<<33, 47>>), (<<58, 64>>), (<<91, 96>>), (<<123, 126>>)>>
    @@ <<"s", "p", "a", "c", "e">> :> <<(<<9, 13>>), (<<32, 32>>)>>
    @@ <<"u", "p", "p", "e", "r">> :> <<(<<65, 90>>)>>
    @@ <<"w", "o", "r", "d">> :>
           <<(<<48, 57>>), (<<65, 90>>), (<<95, 95>>), (<<97, 122>>)>>
    @@ <<"x", "d", "i", "g", "i", "t">> :>
           <<(<<48, 57>>), (<<65, 70>>), (<<97, 102>>)>>

\* unhex
HexValue ==
    [c \in Digits |-> CharCode[c] - 48]
    @@ [c \in {"a", "b", "c", "d", "e", "f"} |-> CharCode[c] - 87]
    @@ [c \in {"A", "B", "C", "D", "E", "F"} |-> CharCode[c] - 55]

\* the escapes of C: \a \f \n \r \t \v
CEscape == "a" :> 7 @@ "f" :> 12 @@ "n" :> 10 @@ "r" :> 13 @@ "t" :> 9 @@ "v" :> 11

\* the value of the octal digits q[i..], at most left of them
RECURSIVE Octal(_, _, _, _)
Octal(q, i, left, r) ==
    IF left > 0 /\ At(q, i) \in {"0", "1", "2", "3", "4", "5", "6", "7"}
    THEN Octal(q, i + 1, left - 1, r * 8 + CharCode[q[i]] - 48)
    ELSE [err |-> Nil, cp |-> r, i |-> i]

\* \x{...}: hexadecimal digits up to the closing brace, one at least, the
\* value no more than the largest rune
RECURSIVE HexBraces(_, _, _, _)
HexBraces(q, i, nhex, r) ==
    IF i > Len(q) THEN [err |-> "invalid escape sequence", cp |-> 0, i |-> i]
    ELSE IF q[i] = "}"
    THEN IF nhex = 0 THEN [err |-> "invalid escape sequence", cp |-> 0, i |-> i]
         ELSE [err |-> Nil, cp |-> r, i |-> i + 1]
    ELSE IF q[i] \notin DOMAIN HexValue \/ r * 16 + HexValue[q[i]] > 1114111
    THEN [err |-> "invalid escape sequence", cp |-> 0, i |-> i]
    ELSE HexBraces(q, i + 1, nhex + 1, r * 16 + HexValue[q[i]])

\* parseEscape: the rune a backslash at i stands for
parseEscape(q, i) ==
    LET c == At(q, i + 1)
        bad == [err |-> "invalid escape sequence", cp |-> 0, i |-> i]
    IN  IF c = "" THEN [err |-> "trailing backslash at end of expression",
                        cp |-> 0, i |-> i]
        ELSE IF c \in {"1", "2", "3", "4", "5", "6", "7"}
        THEN IF At(q, i + 2) \in {"0", "1", "2", "3", "4", "5", "6", "7"}
             THEN Octal(q, i + 2, 2, CharCode[c] - 48)
             ELSE bad
        ELSE IF c = "0" THEN Octal(q, i + 2, 2, 0)
        ELSE IF c = "x"
        THEN IF At(q, i + 2) = "{" THEN HexBraces(q, i + 3, 0, 0)
             ELSE IF At(q, i + 2) \in DOMAIN HexValue /\ At(q, i + 3) \in DOMAIN HexValue
             THEN [err |-> Nil, i |-> i + 4,
                   cp |-> HexValue[q[i + 2]] * 16 + HexValue[q[i + 3]]]
             ELSE bad
        ELSE IF c \in DOMAIN CEscape THEN [err |-> Nil, cp |-> CEscape[c], i |-> i + 2]
        ELSE IF CodePoint(c) < 128 /\ c \notin Letters \cup Digits
        THEN [err |-> Nil, cp |-> CodePoint(c), i |-> i + 2]
        ELSE bad

\* the value of the decimal digits q[i..j-1], -1 once it reaches 10^8
RECURSIVE IntValue(_, _, _, _)
IntValue(q, i, j, n) ==
    IF i >= j THEN n
    ELSE IF n >= 100000000 THEN -1
    ELSE IntValue(q, i + 1, j, n * 10 + CharCode[q[i]] - 48)

\* parseInt: a decimal number without a leading zero
parseInt(q, i) ==
    IF At(q, i) \notin Digits \/ (q[i] = "0" /\ At(q, i + 1) \in Digits)
    THEN [ok |-> FALSE, n |-> 0, i |-> i]
    ELSE [ok |-> TRUE, n |-> IntValue(q, i, SkipWhile(q, Digits, i), 0),
          i |-> SkipWhile(q, Digits, i)]

\* parseRepeat: {n} {n,} {n,m} at i; max is -1 when there is none
parseRepeat(q, i) ==
    LET fail == [ok |-> FALSE, min |-> 0, max |-> 0, i |-> i]
        close(min, max, k) ==
            IF At(q, k) = "}"
            THEN [ok |-> TRUE, min |-> min, max |-> max, i |-> k + 1]
            ELSE fail
        lo == parseInt(q, i + 1)
        hi == parseInt(q, lo.i + 1)
    IN  IF ~lo.ok \/ lo.i > Len(q) THEN fail
        ELSE IF q[lo.i] # "," THEN close(lo.n, lo.n, lo.i)
        ELSE IF lo.i + 1 > Len(q) THEN fail
        ELSE IF q[lo.i + 1] = "}" THEN close(lo.n, -1, lo.i + 1)
        ELSE IF ~hi.ok THEN fail
        ELSE close(IF hi.n < 0 THEN -1 ELSE lo.n, hi.n, hi.i)

\* repeatIsValid: no nest of counted repetitions exceeds n copies
RECURSIVE repeatIsValid(_, _)
repeatIsValid(re, n) ==
    LET counted == re.op = "Repeat" /\ re.counted
        m == IF ~counted THEN 0 ELSE IF re.max < 0 THEN re.min ELSE re.max
        n1 == IF m > 0 THEN n \div m ELSE n
    IN  IF counted /\ re.max = 0 THEN TRUE
        ELSE IF m > n THEN FALSE
        ELSE IF re.op \in {"Concat", "Alternate"}
        THEN \A k \in 1..Len(re.subs) : repeatIsValid(re.subs[k], n1)
        ELSE IF re.op \in {"Capture", "Repeat"} THEN repeatIsValid(re.sub, n1)
        ELSE TRUE

\* parsePerlFlags from the character after "(?": the flags up to ")" or ":"
RECURSIVE parsePerlFlags(_, _, _, _, _)
parsePerlFlags(q, j, f, neg, sawFlag) ==
    LET c == At(q, j)
        fail == [ok |-> FALSE, f |-> f, i |-> j, group |-> FALSE]
    IN  IF c = "i"
        THEN parsePerlFlags(q, j + 1, [f EXCEPT !.fold = ~neg], neg, TRUE)
        ELSE IF c = "m"
        THEN parsePerlFlags(q, j + 1, [f EXCEPT !.multi = ~neg], neg, TRUE)
        ELSE IF c = "s"
        THEN parsePerlFlags(q, j + 1, [f EXCEPT !.dotNL = ~neg], neg, TRUE)
        ELSE IF c = "U"
        THEN parsePerlFlags(q, j + 1, [f EXCEPT !.ungreedy = ~neg], neg, TRUE)
        ELSE IF c = "-"
        THEN IF neg THEN fail ELSE parsePerlFlags(q, j + 1, f, TRUE, FALSE)
        ELSE IF c \in {":", ")"}
        THEN IF neg /\ ~sawFlag THEN fail
             ELSE [ok |-> TRUE, f |-> f, i |-> j + 1, group |-> c = ":"]
        ELSE fail

\* the index of the ":" of the first ":]" at or after j, 0 when there is none
RECURSIVE ClassNameEnd(_, _)
ClassNameEnd(q, j) ==
    IF j + 1 > Len(q) THEN 0
    ELSE IF q[j] = ":" /\ q[j + 1] = "]" THEN j
    ELSE ClassNameEnd(q, j + 1)

\* parseNamedClass on the name between "[:" and ":]"
NamedGroup(name) ==
    IF name \in DOMAIN PosixGroup THEN [ok |-> TRUE, g |-> Group(PosixGroup[name], FALSE)]
    ELSE IF name # <<>> /\ name[1] = "^" /\ Tail(name) \in DOMAIN PosixGroup
    THEN [ok |-> TRUE, g |-> Group(PosixGroup[Tail(name)], TRUE)]
    ELSE [ok |-> FALSE, g |-> Group(<<>>, FALSE)]

\* parseClassChar
parseClassChar(q, j) ==
    IF j > Len(q) THEN [err |-> "missing closing ]", cp |-> 0, i |-> j]
    ELSE IF q[j] = "\\" THEN parseEscape(q, j)
    ELSE [err |-> Nil, cp |-> CodePoint(q[j]), i |-> j + 1]

\* unicodeTable: the table of that name, "" (nil) when there is none
unicodeTable(name) == IF Str(name) \in UnicodeTables THEN Str(name) ELSE ""

\* the name behind the \p or \P at i: one character, or what stands between
\* braces, end being where the first "}" from i on is (0 when there is none)
unicodeName(q, i, end) ==
    IF At(q, i + 2) = "{"
    THEN [ok |-> end # 0, name |-> SubSeq(q, i + 3, end - 1), i |-> end + 1]
    ELSE IF i + 2 > Len(q) THEN [ok |-> TRUE, name |-> <<>>, i |-> i + 2]
    ELSE [ok |-> TRUE, name |-> <<q[i + 2]>>, i |-> i + 3]

\* the group of the table called n.name, excluded behind \P; flip tells
\* that the name opens with "^", which turns the sign round
unicodeGroup(q, i, n, flip) ==
    IF ~n.ok \/ unicodeTable(IF flip THEN Tail(n.name) ELSE n.name) = ""
    THEN Failed("invalid character class range")
    ELSE [err |-> Nil, i |-> n.i,
          g |-> [ranges |-> <<>>, neg |-> ((q[i + 1] = "P") # flip),
                 table |-> unicodeTable(IF flip THEN Tail(n.name) ELSE n.name)]]

\* parseUnicodeClass: the \p or \P at i
parseUnicodeClass(q, i) ==
    LET n == unicodeName(q, i, IndexFrom(q, "}", i))
    IN  unicodeGroup(q, i, n, n.name # <<>> /\ n.name[1] = "^")

\* the loop of parseClass from j on
RECURSIVE ClassItems(_, _, _, _)

\* \p or \P inside brackets: u is what parseUnicodeClass made of it
classUnicode(q, groups, u) ==
    IF u.err # Nil THEN Failed(u.err)
    ELSE ClassItems(q, u.i, FALSE, Append(groups, u.g))

\* [:name:] up to k: named is what parseNamedClass made of the name
classNamed(q, k, groups, named) ==
    IF named.ok THEN ClassItems(q, k + 2, FALSE, Append(groups, named.g))
    ELSE Failed("invalid character class range")

\* the range from lo to hi
classRange(q, groups, lo, hi) ==
    IF hi.err # Nil THEN Failed(hi.err)
    ELSE IF hi.cp < lo.cp THEN Failed("invalid character class range")
    ELSE ClassItems(q, hi.i, FALSE,
                    Append(groups, Group(<<(<<lo.cp, hi.cp>>)>>, FALSE)))

\* the character lo, alone or as the low end of a range
classChar(q, groups, lo) ==
    IF lo.err # Nil THEN Failed(lo.err)
    ELSE IF Len(q) - lo.i + 1 >= 2 /\ q[lo.i] = "-" /\ q[lo.i + 1] # "]"
    THEN classRange(q, groups, lo, parseClassChar(q, lo.i + 1))
    ELSE ClassItems(q, lo.i, FALSE,
                    Append(groups, Group(<<(<<lo.cp, lo.cp>>)>>, FALSE)))

\* the item at j when it opens with "[:"; k is where its ":]" is, 0 when it
\* has none
classItem(q, j, k, groups) ==
    IF Len(q) - j + 1 > 2 /\ q[j] = "[" /\ q[j + 1] = ":" /\ k # 0
    THEN classNamed(q, k, groups, NamedGroup(SubSeq(q, j + 2, k - 1)))
    ELSE IF At(q, j) = "\\" /\ At(q, j + 1) \in {"p", "P"}
    THEN classUnicode(q, groups, parseUnicodeClass(q, j))
    ELSE IF At(q, j) = "\\" /\ At(q, j + 1) \in DOMAIN PerlGroup
    THEN ClassItems(q, j + 2, FALSE, Append(groups, PerlGroup[q[j + 1]]))
    ELSE classChar(q, groups, parseClassChar(q, j))

ClassItems(q, j, first, groups) ==
    IF j <= Len(q) /\ q[j] = "]" /\ ~first
    THEN [err |-> Nil, items |-> groups, i |-> j + 1]
    ELSE classItem(q, j, ClassNameEnd(q, j + 2), groups)

\* the class of the items r, negated or not
classOf(r, neg, f) ==
    IF r.err # Nil THEN r
    ELSE Parsed(CharClass(r.items, neg, f), r.i)

\* parseClass: the bracket expression opening at i
parseClass(q, i, f) ==
    classOf(ClassItems(q, IF At(q, i + 1) = "^" THEN i + 2 ELSE i + 1, TRUE, <<>>),
            At(q, i + 1) = "^", f)

\* the index of the "\" of the first "\E" at or after j, 0 when there is none
RECURSIVE QuoteEnd(_, _)
QuoteEnd(q, j) ==
    IF j + 1 > Len(q) THEN 0
    ELSE IF q[j] = "\\" /\ q[j + 1] = "E" THEN j
    ELSE QuoteEnd(q, j + 1)

\* the tree of the alternatives parsed so far and the concatenation cur
Collapse(alts, cur) ==
    IF alts = <<>> THEN Concat(cur)
    ELSE [op |-> "Alternate",
          subs |-> [k \in 1..(Len(alts) + 1) |->
                       IF k <= Len(alts) THEN Concat(alts[k]) ELSE Concat(cur)]]

\* parser.repeat: the operator with the bounds min and max is applied to the
\* last piece of cur; lazy tells that a "?" follows the operator
Repeated(cur, min, max, counted, lazy, f, lastRepeat) ==
    LET re == [op |-> "Repeat", sub |-> cur[Len(cur)], min |-> min,
               max |-> max, counted |-> counted, greedy |-> (f.ungreedy = lazy)]
    IN  IF lastRepeat
        THEN [err |-> "invalid nested repetition operator", cur |-> <<>>]
        ELSE IF cur = <<>>
        THEN [err |-> "missing argument to repetition operator", cur |-> <<>>]
        ELSE IF counted /\ (min >= 2 \/ max >= 2) /\ ~repeatIsValid(re, 1000)
        THEN [err |-> "invalid repeat count", cur |-> <<>>]
        ELSE [err |-> Nil, cur |-> [cur EXCEPT ![Len(cur)] = re]]

\* the pieces \Q...\E stands for
Quoted(text, f) == [k \in 1..Len(text) |-> Literal(CodePoint(text[k]), f)]

(* parser.parse: the loop from the character at i on, inside depth open
   groups, with the flags f; alts are the finished alternatives of the group
   being read, cur the pieces of the alternative being read, lastRepeat tells
   that the piece before i is a repetition operator.  It ends behind the ")"
   that closes the group, or at the end of the pattern. *)
RECURSIVE parse(_, _, _, _, _, _, _)

\* parser.push: the piece re, read up to j, joins the alternative being read
push(q, j, f, depth, alts, cur, re) ==
    parse(q, j, f, depth, alts, Append(cur, re), FALSE)

\* what parsed as r, a group's inside or a class, is a piece; what follows is
\* parsed with the flags f
pushParsed(q, f, depth, alts, cur, capture, r) ==
    IF r.err # Nil THEN r
    ELSE push(q, r.i, f, depth, alts, cur,
              IF capture THEN [op |-> "Capture", sub |-> r.re] ELSE r.re)

\* a group opens before j: what is inside is parsed with the flags g
group(q, j, g, f, depth, alts, cur, capture) ==
    pushParsed(q, f, depth, alts, cur, capture,
               parse(q, j, g, depth + 1, <<>>, <<>>, FALSE))

\* "(?": flags is what parsePerlFlags made of it
perlGroup(q, f, depth, alts, cur, flags) ==
    IF ~flags.ok THEN Failed("invalid or unsupported Perl syntax")
    ELSE IF flags.group THEN group(q, flags.i, flags.f, f, depth, alts, cur, FALSE)
    ELSE parse(q, flags.i, flags.f, depth, alts, cur, FALSE)

\* the repetition operator ended before j and parser.repeat answered r
afterRepeat(q, j, f, depth, alts, r) ==
    IF r.err # Nil THEN Failed(r.err)
    ELSE parse(q, j, f, depth, alts, r.cur, TRUE)

\* a repetition operator that ends before j, but for the "?" of a lazy one
repeat(q, j, f, depth, alts, cur, lastRepeat, min, max, counted) ==
    afterRepeat(q, IF At(q, j) = "?" THEN j + 1 ELSE j, f, depth, alts,
                Repeated(cur, min, max, counted, At(q, j) = "?", f, lastRepeat))

\* "{" at i: counts is what parseRepeat made of it
countedRepeat(q, i, f, depth, alts, cur, lastRepeat, counts) ==
    IF ~counts.ok THEN push(q, i + 1, f, depth, alts, cur, Literal(CodePoint("{"), f))
    ELSE IF \/ counts.min < 0 \/ counts.min > 1000 \/ counts.max > 1000
            \/ (counts.max >= 0 /\ counts.min > counts.max)
    THEN Failed("invalid repeat count")
    ELSE repeat(q, counts.i, f, depth, alts, cur, lastRepeat,
                counts.min, counts.max, TRUE)

\* "\Q" at i: quoteEnd is where its "\E" is, 0 when it has none
quote(q, i, f, depth, alts, cur, quoteEnd) ==
    IF quoteEnd = 0
    THEN parse(q, Len(q) + 1, f, depth, alts,
               cur \o Quoted(SubSeq(q, i + 2, Len(q)), f), FALSE)
    ELSE parse(q, quoteEnd + 2, f, depth, alts,
               cur \o Quoted(SubSeq(q, i + 2, quoteEnd - 1), f), FALSE)

\* a backslash that stands for a rune: esc is what parseEscape made of it
escaped(q, f, depth, alts, cur, esc) ==
    IF esc.err # Nil THEN Failed(esc.err)
    ELSE push(q, esc.i, f, depth, alts, cur, Literal(esc.cp, f))

\* \p or \P outside brackets: u is what parseUnicodeClass made of it
unicodeClass(q, f, depth, alts, cur, u) ==
    IF u.err # Nil THEN Failed(u.err)
    ELSE push(q, u.i, f, depth, alts, cur, CharClass(<<u.g>>, FALSE, f))

\* isValidCaptureName: letters of ASCII, digits and "_", one at least
isValidCaptureName(name) ==
    /\ name # <<>>
    /\ \A k \in 1..Len(name) : name[k] \in Letters \cup Digits \cup {"_"}

\* "(?P<" or "(?<" at i: the name starts at j, end is where the first ">"
\* from i on is (0 when there is none)
namedCapture(q, j, end, f, depth, alts, cur) ==
    IF end = 0 \/ ~isValidCaptureName(SubSeq(q, j, end - 1))
    THEN Failed("invalid named capture")
    ELSE group(q, end + 1, f, f, depth, alts, cur, TRUE)

\* the pieces that take no argument: ^ $ . and \A \b \B \z
EmptyOp(c, f) ==
    IF c = "^" THEN [op |-> IF f.multi THEN "BeginLine" ELSE "BeginText"]
    ELSE IF c = "$" THEN [op |-> IF f.multi THEN "EndLine" ELSE "EndText"]
    ELSE IF c = "." THEN [op |-> IF f.dotNL THEN "AnyChar" ELSE "AnyCharNotNL"]
    ELSE IF c = "A" THEN [op |-> "BeginText"]
    ELSE IF c = "b" THEN [op |-> "WordBoundary"]
    ELSE IF c = "B" THEN [op |-> "NoWordBoundary"]
    ELSE [op |-> "EndText"]

\* a backslash at i, n the character behind it
backslash(q, i, n, f, depth, alts, cur) ==
    IF n \in {"A", "b", "B", "z"}
    THEN push(q, i + 2, f, depth, alts, cur, EmptyOp(n, f))
    ELSE IF n = "C" THEN Failed("invalid escape sequence")
    ELSE IF n = "Q" THEN quote(q, i, f, depth, alts, cur, QuoteEnd(q, i + 2))
    ELSE IF n \in {"p", "P"}
    THEN unicodeClass(q, f, depth, alts, cur, parseUnicodeClass(q, i))
    ELSE IF n \in DOMAIN PerlGroup
    THEN push(q, i + 2, f, depth, alts, cur, CharClass(<<PerlGroup[n]>>, FALSE, f))
    ELSE escaped(q, f, depth, alts, cur, parseEscape(q, i))

\* the character c at i
parseAt(q, i, c, f, depth, alts, cur, lastRepeat) ==
    IF c = "(" /\ At(q, i + 1) = "?"
    THEN IF \/ (Len(q) - i + 1 > 4 /\ At(q, i + 2) = "P" /\ At(q, i + 3) = "<")
            \/ (Len(q) - i + 1 > 3 /\ At(q, i + 2) = "<")
         THEN namedCapture(q, IF At(q, i + 2) = "<" THEN i + 3 ELSE i + 4,
                           IndexFrom(q, ">", i), f, depth, alts, cur)
         ELSE perlGroup(q, f, depth, alts, cur,
                        parsePerlFlags(q, i + 2, f, FALSE, FALSE))
    ELSE IF c = "(" THEN group(q, i + 1, f, f, depth, alts, cur, TRUE)
    ELSE IF c = "|"
    THEN parse(q, i + 1, f, depth, Append(alts, cur), <<>>, FALSE)
    ELSE IF c = ")"
    THEN IF depth = 0 THEN Failed("unexpected )")
         ELSE Parsed(Collapse(alts, cur), i + 1)
    ELSE IF c \in {"^", "$", "."}
    THEN push(q, i + 1, f, depth, alts, cur, EmptyOp(c, f))
    ELSE IF c = "["
    THEN pushParsed(q, f, depth, alts, cur, FALSE, parseClass(q, i, f))
    ELSE IF c \in {"*", "+", "?"}
    THEN repeat(q, i + 1, f, depth, alts, cur, lastRepeat,
                IF c = "+" THEN 1 ELSE 0, IF c = "?" THEN 1 ELSE -1, FALSE)
    ELSE IF c = "{"
    THEN countedRepeat(q, i, f, depth, alts, cur, lastRepeat, parseRepeat(q, i))
    ELSE IF c = "\\" THEN backslash(q, i, At(q, i + 1), f, depth, alts, cur)
    ELSE push(q, i + 1, f, depth, alts, cur, Literal(CodePoint(c), f))

parse(q, i, f, depth, alts, cur, lastRepeat) ==
    IF i > Len(q)
    THEN IF depth > 0 THEN Failed("missing closing )")
         ELSE Parsed(Collapse(alts, cur), i)
    ELSE parseAt(q, i, q[i], f, depth, alts, cur, lastRepeat)

(* Regexp.Simplify: the tree is rewritten with the operators Star, Plus and
   Quest alone, counted repetitions being unrolled; a concatenation of one
   piece is that piece and of none the empty match (parser.collapse). *)

EmptyMatch == [op |-> "EmptyMatch"]

\* simplify1: the operator op applied to sub; the empty match repeated is
\* the empty match, and an operator applied twice is applied once
simplify1(op, greedy, sub) ==
    IF sub.op = "EmptyMatch" THEN sub
    ELSE IF sub.op = op /\ sub.greedy = greedy THEN sub
    ELSE [op |-> op, sub |-> sub, greedy |-> greedy]

\* the suffix (x(x(x)?)?)? of x{n,m}: m - n optional copies of x, nested
RECURSIVE Quests(_, _, _)
Quests(sub, n, greedy) ==
    IF n = 1 THEN simplify1("Quest", greedy, sub)
    ELSE simplify1("Quest", greedy,
                   Concat(<<sub, Quests(sub, n - 1, greedy)>>))

\* a repetition whose piece is simplified to sub: x{0} is the empty match,
\* x{n,} is n - 1 copies of x and x+, x{1} is x, and x{n,m} is n copies of
\* x and the nested suffix
simplifyRepeat(re, sub) ==
    IF re.max = -1 /\ re.min = 0 THEN simplify1("Star", re.greedy, sub)
    ELSE IF re.max = -1 /\ re.min = 1 THEN simplify1("Plus", re.greedy, sub)
    ELSE IF ~re.counted THEN simplify1("Quest", re.greedy, sub)
    ELSE IF re.min = 0 /\ re.max = 0 THEN EmptyMatch
    ELSE IF re.max = -1
    THEN Concat([k \in 1..(re.min - 1) |-> sub]
                    \o <<simplify1("Plus", re.greedy, sub)>>)
    ELSE IF re.min = 1 /\ re.max = 1 THEN sub
    ELSE IF re.min = 0 THEN Quests(sub, re.max, re.greedy)
    ELSE Concat([k \in 1..re.min |-> sub]
                    \o (IF re.max > re.min
                        THEN <<Quests(sub, re.max - re.min, re.greedy)>>
                        ELSE <<>>))

RECURSIVE Simplify(_)
Simplify(re) ==
    IF re.op = "Concat"
    THEN IF re.subs = <<>> THEN EmptyMatch
         ELSE IF Len(re.subs) = 1 THEN Simplify(re.subs[1])
         ELSE Concat([k \in 1..Len(re.subs) |-> Simplify(re.subs[k])])
    ELSE IF re.op = "Alternate"
    THEN [re EXCEPT !.subs = [k \in 1..Len(re.subs) |-> Simplify(re.subs[k])]]
    ELSE IF re.op = "Capture" THEN [re EXCEPT !.sub = Simplify(re.sub)]
    ELSE IF re.op = "Repeat" THEN simplifyRepeat(re, Simplify(re.sub))
    ELSE re

(* syntax.Compile: the simplified tree becomes a program, a sequence of
   instructions.  A fragment is compiled once the instruction that follows
   it, next, is known; frag.i is where the fragment is entered, and
   frag.nullable tells whether it may take nothing.  An Alt instruction
   tries out before arg. *)

Frag(p, i, nullable) == [p |-> p, i |-> i, nullable |-> nullable]

\* c.inst: one more instruction
inst(p, in, nullable) == Frag(Append(p, in), Len(p) + 1, nullable)

Alt(out, arg) == [op |-> "Alt", out |-> out, arg |-> arg]

\* c.cap: the instruction that opens the group, in front of the group
\* compiled as f (the one that closes it is the one f goes on to)
cap(f) == inst(f.p, [op |-> "Capture", out |-> f.i], f.nullable)

\* c.quest: f or nothing, f preferred when greedy
quest(greedy, f, next) ==
    inst(f.p, IF greedy THEN Alt(f.i, next) ELSE Alt(next, f.i), TRUE)

\* c.loop, c.plus and c.star: the piece compiled as f goes on to the Alt
\* at l, which goes round again or leaves.  x+ is entered at x; x* is
\* entered at the Alt, and is compiled as (x+)? when x may take nothing
loop(re, f, l, next) ==
    LET p == [f.p EXCEPT
                ![l] = IF re.greedy THEN Alt(f.i, next) ELSE Alt(next, f.i)]
    IN  IF re.op = "Plus" THEN Frag(p, f.i, f.nullable)
        ELSE IF f.nullable THEN quest(re.greedy, Frag(p, f.i, TRUE), next)
        ELSE Frag(p, l, TRUE)

RECURSIVE compile(_, _, _)
RECURSIVE compileConcat(_, _, _, _, _)
RECURSIVE compileAlternate(_, _, _, _)

\* c.cat: the pieces subs[lo..hi] in front of f, which is compiled already;
\* a fragment entered at 0 is a failure, and so is what is put in front
cat(subs, lo, hi, f) ==
    IF f.i = 0 THEN f
    ELSE [compileConcat(subs, lo, hi, f.p, f.i)
              EXCEPT !.nullable = @ /\ f.nullable]

\* the pieces subs[lo..hi] in a row: the later half is compiled first, so
\* that the earlier half knows the instruction it goes on to
compileConcat(subs, lo, hi, p, next) ==
    IF lo = hi THEN compile(subs[lo], p, next)
    ELSE cat(subs, lo, (lo + hi) \div 2,
             compileConcat(subs, (lo + hi) \div 2 + 1, hi, p, next))

\* c.alt: f1, the alternatives subs[1..k-1], before f2, the alternative k
alt(subs, k, f1, f2, next) ==
    compileAlternate(subs, k + 1,
                     inst(f2.p, Alt(f1.i, f2.i), f1.nullable \/ f2.nullable),
                     next)

compileAlternate(subs, k, f, next) ==
    IF k > Len(subs) THEN f
    ELSE alt(subs, k, f, compile(subs[k], f.p, next), next)

\* c.compile
compile(re, p, next) ==
    IF re.op \in {"Literal", "AnyChar", "AnyCharNotNL", "CharClass"}
    THEN inst(p, [op |-> "Rune", re |-> re, out |-> next], FALSE)
    ELSE IF re.op = "EmptyMatch" THEN inst(p, [op |-> "Nop", out |-> next], TRUE)
    ELSE IF re.op = "Capture"
    THEN cap(compile(re.sub, Append(p, [op |-> "Capture", out |-> next]),
                     Len(p) + 1))
    ELSE IF re.op = "Concat"
    THEN compileConcat(re.subs, 1, Len(re.subs), p, next)
    ELSE IF re.op = "Alternate"
    THEN compileAlternate(re.subs, 2, compile(re.subs[1], p, next), next)
    ELSE IF re.op = "Quest"
    THEN quest(re.greedy, compile(re.sub, p, next), next)
    ELSE IF re.op \in {"Star", "Plus"}
    THEN loop(re, compile(re.sub, Append(p, [op |-> "Nop", out |-> next]),
                          Len(p) + 1),
              Len(p) + 1, next)
    ELSE inst(p, [op |-> "EmptyWidth", re |-> re, out |-> next], TRUE)

\* the program of a parsed pattern: Inst, with the Match instruction first,
\* and Start
Prog(f) == [Inst |-> f.p, Start |-> f.i]

compiled(r) ==
    IF r.err # Nil THEN r
    ELSE Parsed(Prog(compile(Simplify(r.re), <<[op |-> "Match"]>>, 1)), r.i)

\* regexp.Compile("(?i)" + q): the error err, or the program re of the
\* pattern
Compile(q) ==
    compiled(parse(<<"(", "?", "i", ")">> \o q, 1,
                   [fold |-> FALSE, multi |-> FALSE, dotNL |-> FALSE,
                    ungreedy |-> FALSE],
                   0, <<>>, <<>>, FALSE))

(* Regexp.FindIndex: leftmost-first matching of a program against a text
   given as its runes, positions being counted in runes. *)

\* the runes of a text, as the matcher decodes them
Runes(line) == [k \in 1..Len(line) |-> CodePoint(line[k])]

InRanges(ranges, cp) ==
    \E k \in 1..Len(ranges) : ranges[k][1] <= cp /\ cp <= ranges[k][2]

\* a group is folded first and negated after: under (?i) it holds the runes
\* equal under folding to one of its own
InGroup(g, cp, fold) ==
    g.neg # (\E o \in {cp} \cup (IF fold THEN FoldOrbit(cp) ELSE {}) :
                \/ InRanges(g.ranges, o)
                \/ g.table = "Any"
                \/ (g.table # "" /\ g.table \in Tables(o)))

InClass(re, cp) ==
    re.neg # (\E k \in 1..Len(re.items) : InGroup(re.items[k], cp, re.fold))

IsWordRune(cp) == InRanges(PerlWord, cp)

\* is the character before, or after, the offset i a word character
WordBefore(s, i) == i > 0 /\ IsWordRune(s[i])
WordAfter(s, i) == i < Len(s) /\ IsWordRune(s[i + 1])

\* does the node, one that takes one character or none, match at i
Holds(re, s, i) ==
    IF re.op = "Literal"
    THEN i < Len(s) /\ (\/ s[i + 1] = re.cp
                        \/ (re.fold /\ re.cp \in FoldOrbit(s[i + 1])))
    ELSE IF re.op = "AnyChar" THEN i < Len(s)
    ELSE IF re.op = "AnyCharNotNL" THEN i < Len(s) /\ s[i + 1] # 10
    ELSE IF re.op = "CharClass" THEN i < Len(s) /\ InClass(re, s[i + 1])
    ELSE IF re.op = "BeginText" THEN i = 0
    ELSE IF re.op = "EndText" THEN i = Len(s)
    ELSE IF re.op = "BeginLine" THEN i = 0 \/ s[i] = 10
    ELSE IF re.op = "EndLine" THEN i = Len(s) \/ s[i + 1] = 10
    ELSE IF re.op = "WordBoundary" THEN WordBefore(s, i) # WordAfter(s, i)
    ELSE WordBefore(s, i) = WordAfter(s, i)

\* one step of the program: the instructions to go on with after the
\* instruction in at pos, the preferred first
step(in, s, pos) ==
    IF in.op = "Alt" THEN <<(<<in.out, pos>>), (<<in.arg, pos>>)>>
    ELSE IF in.op = "Rune"
    THEN (IF Holds(in.re, s, pos) THEN <<(<<in.out, pos + 1>>)>> ELSE <<>>)
    ELSE IF in.op = "EmptyWidth"
    THEN (IF Holds(in.re, s, pos) THEN <<(<<in.out, pos>>)>> ELSE <<>>)
    ELSE <<(<<in.out, pos>>)>>

\* one turn of the loop of tryBacktrack: the first job, an instruction and a
\* position, is taken off; one visited before is dropped (shouldVisit), a
\* Match ends the search, and any other instruction puts the jobs to go on
\* with in front of the rest
turn(prog, s, b) ==
    IF b.visited[b.job[1][1]][b.job[1][2]] THEN [b EXCEPT !.job = Tail(b.job)]
    ELSE IF prog.Inst[b.job[1][1]].op = "Match" THEN [b EXCEPT !.end = b.job[1][2]]
    ELSE [job     |-> step(prog.Inst[b.job[1][1]], s, b.job[1][2]) \o Tail(b.job),
          visited |-> [b.visited EXCEPT ![b.job[1][1]][b.job[1][2]] = TRUE],
          end     |-> -1]

\* 2^k turns of the loop, fewer when a Match is reached or the jobs run out
RECURSIVE turns(_, _, _, _)
turns(prog, s, b, k) ==
    IF b.end >= 0 \/ b.job = <<>> THEN b
    ELSE IF k = 0 THEN turn(prog, s, b)
    ELSE turns(prog, s, turns(prog, s, b, k - 1), k - 1)

\* for len(b.job) > 0: the loop goes on until a Match or the end of the jobs
RECURSIVE untilDone(_, _, _, _)
untilDone(prog, s, b, k) ==
    IF b.end >= 0 \/ b.job = <<>> THEN b
    ELSE untilDone(prog, s, turns(prog, s, b, k), k + 1)

\* tryBacktrack: the jobs are taken up in order of preference; an
\* instruction is visited once at a position, and the first Match reached
\* ends the search.  end is the position of that Match, -1 when the jobs
\* run out.
tryBacktrack(prog, s, job, visited) ==
    untilDone(prog, s, [job |-> job, visited |-> visited, end |-> -1], 0)

\* b.reset: the bits of visited, one for every instruction and position,
\* all cleared
reset(prog, s) == [in \in 1..Len(prog.Inst) |-> [pos \in 0..Len(s) |-> FALSE]]

\* the end of the match of prog that starts at i, -1 when there is none
MatchEnd(prog, s, i) ==
    tryBacktrack(prog, s, <<(<<prog.Start, i>>)>>, reset(prog, s)).end

\* backtrack: the starting positions lo..hi are tried in order, what was
\* visited from the earlier ones staying visited, until one has a match
RECURSIVE FindIndexFrom(_, _, _, _, _)
Found(rx, s, lo, hi, r) ==
    IF r.end >= 0 THEN r ELSE FindIndexFrom(rx, s, lo, hi, r.visited)

From(lo, r) == [start |-> lo, end |-> r.end, visited |-> r.visited]

FindIndexFrom(rx, s, lo, hi, visited) ==
    IF lo = hi
    THEN From(lo, tryBacktrack(rx, s, <<(<<rx.Start, lo>>)>>, visited))
    ELSE Found(rx, s, (lo + hi) \div 2 + 1, hi,
               FindIndexFrom(rx, s, lo, (lo + hi) \div 2, visited))

\* the runes <<start, end>> of the match r, <<>> when there is none
Loc(r) == IF r.end >= 0 THEN <<r.start, r.end>> ELSE <<>>

\* the byte offsets of the match found between the runes loc
ByteSpan(line, loc) ==
    IF loc = <<>> THEN <<>>
    ELSE <<ByteOffset(line, loc[1]), ByteOffset(line, loc[2])>>

\* rx.FindIndex(line): the byte offsets <<start, end>> of the leftmost
\* match, <<>> (nil) when there is none
FindIndex(rx, line) ==
    ByteSpan(line, Loc(FindIndexFrom(rx, Runes(line), 0, Len(Runes(line)),
                                     reset(rx, Runes(line)))))

\* for i := 0; i < len(locs); i += 2 { for j := locs[i]; j < locs[i+1]; j++ }
RECURSIVE ExpandLocs(_, _)
ExpandLocs(locs, i) ==
    IF i >= Len(locs) THEN <<>>
    ELSE [k \in 1..(locs[i + 2] - locs[i + 1]) |-> locs[i + 1] + k - 1]
         \o ExpandLocs(locs, i + 2)

\* the scan of filterLogs over the rendered lines, from line i (0-based) on,
\* and its return of matches, indices and a nil error
RECURSIVE ScanLines(_, _, _, _)
ScanLines(rx, invert, lines, i) ==
    IF i >= Len(lines) THEN [matches |-> <<>>, indices |-> <<>>, err |-> Nil]
    ELSE LET locs == FindIndex(rx, lines[i + 1])
             rest == ScanLines(rx, invert, lines, i + 1)
         IN  IF (locs # <<>> /\ invert) \/ (locs = <<>> /\ ~invert)
             THEN rest
             ELSE [matches |-> <<i>> \o rest.matches,
                   indices |-> <<ExpandLocs(locs, 0)>> \o rest.indices,
                   err     |-> Nil]

\* filterLogs that takes the sentinel off and then keeps the matching lines
filterLogsNeverInverts(l, q, showTime, modifier, reg) ==
    LET q1 == IF IsInverseSelector(q) THEN Tail(q) ELSE q
        c == Compile(q1)
    IN  IF c.err # Nil
        THEN [matches |-> <<>>, indices |-> <<>>, err |-> c.err]
        ELSE ScanLines(c.re, FALSE, Lines(l, showTime, modifier, reg), 0)

\* LogItems.filterLogs
filterLogs(l, q, showTime, modifier, reg) ==
    LET invert == IsInverseSelector(q)
        q1 == IF invert THEN Tail(q) ELSE q
        c == Compile(q1)
    IN  IF c.err # Nil
        THEN [matches |-> <<>>, indices |-> <<>>, err |-> c.err]
        ELSE ScanLines(c.re, invert, Lines(l, showTime, modifier, reg), 0)

\* the positions (0-based) at which the characters of q are found in line,
\* in order, each as early as possible; <<>> when q is not a subsequence
RECURSIVE SubsequenceAt(_, _, _)
SubsequenceAt(q, line, i) ==
    IF Len(q) = 0 THEN <<>>
    ELSE IF i > Len(line) THEN <<-1>>
    ELSE IF Fold(line[i]) = Fold(q[1])
         THEN <<i - 1>> \o SubsequenceAt(Tail(q), line, i + 1)
    ELSE SubsequenceAt(q, line, i + 1)

\* fuzzy.Find(q, lines), a collaborator outside this package: one hit for
\* every line that holds the characters of q in order, with the line's index
\* and the matched positions; nothing for an empty q.  The ranking is the
\* collaborator's; hits are listed by index here.
RECURSIVE FuzzyFind(_, _, _)
FuzzyFind(q, lines, i) ==
    IF i >= Len(lines) THEN <<>>
    ELSE LET pos == SubsequenceAt(q, lines[i + 1], 1)
         IN  (IF Len(q) = 0 \/ -1 \in Range(pos) THEN <<>>
              ELSE <<[Index |-> i, MatchedIndexes |-> pos]>>)
             \o FuzzyFind(q, lines, i + 1)

\* LogItems.fuzzyFilter
fuzzyFilter(l, q, showTime, modifier, reg) ==
    LET mm == FuzzyFind(TrimSpace(q), StrLines(l, showTime, modifier, reg), 0)
    IN  [matches |-> [k \in 1..Len(mm) |-> mm[k].Index],
         indices |-> [k \in 1..Len(mm) |-> mm[k].MatchedIndexes]]

\* Filter that logs the failure of filterLogs and goes on with its result
FilterDropsError(l, q, showTime, modifier, reg) ==
    IF q = <<>> THEN [matches |-> <<>>, indices |-> <<>>, err |-> Nil]
    ELSE IF IsFuzzySelector(q)
    THEN LET f == fuzzyFilter(l, TrimSpace(Drop(q, 2)), showTime, modifier, reg)
         IN  [matches |-> f.matches, indices |-> f.indices, err |-> Nil]
    ELSE LET r == filterLogs(l, q, showTime, modifier, reg)
         IN  [matches |-> r.matches, indices |-> r.indices, err |-> Nil]

\* LogItems.Filter
Filter(l, q, showTime, modifier, reg) ==
    IF q = <<>> THEN [matches |-> <<>>, indices |-> <<>>, err |-> Nil]
    ELSE IF IsFuzzySelector(q)
    THEN LET f == fuzzyFilter(l, TrimSpace(Drop(q, 2)), showTime, modifier, reg)
         IN  [matches |-> f.matches, indices |-> f.indices, err |-> Nil]
    ELSE LET r == filterLogs(l, q, showTime, modifier, reg)
         IN  IF r.err # Nil
             THEN [matches |-> <<>>, indices |-> <<>>, err |-> r.err]
             ELSE r

NoQuery == [q |-> <<>>, showTime |-> FALSE, modifier |-> ""]

NoResult == [matches |-> <<>>, indices |-> <<>>, err |-> Nil]

----------------------------------------------------------------------------
(* Clone.  Here a record's Bytes is the address of its buffer in a heap, so
   that two records can share a buffer; a buffer is a sequence of bytes. *)

\* a copy of the struct: the slice header is copied, the buffer is shared
CloneSharesBuffer(h, l) == [heap |-> h, item |-> l]

\* LogItem.Clone: make a buffer of the same length, copy the bytes into it,
\* copy the other fields
Clone(h, l) ==
    LET bytes == Len(h) + 1
    IN  [heap |-> Append(h, h[l.Bytes]),
         item |-> [Container |-> l.Container, Pod |-> l.Pod,
                   Timestamp |-> l.Timestamp,
                   SingleContainer |-> l.SingleContainer,
                   Bytes |-> bytes]]

----------------------------------------------------------------------------
(* Specification SpecParse: raw lines are parsed into records *)

\* the bytes raw lines are made of; U+00E9 takes two bytes
RawAlphabet == Range(UTF8(<<"T", "m", " ", "\n", "U+00E9">>))

RawInputs == SeqsUpTo(RawAlphabet, MaxRaw)

ParseIdle == raw = <<>> /\ item = NoItem /\ crashed = FALSE

EscIdle == texts = <<>>

RegIdle == logModifiers = InitRegistry /\ regLog = <<>>

ItemIdle == lastRender = NoRender

ItemsIdle == items = <<>> /\ rendered = NoRendered

FilterIdle == query = NoQuery /\ filtered = NoResult /\ inverted = NoResult

CloneIdle ==
    /\ heap = <<>>
    /\ orig = NoItem
    /\ clone = NoItem
    /\ shadow = [orig |-> <<>>, clone |-> <<>>, writes |-> 0]

InitParse ==
    /\ pc = "idle"
    /\ EscIdle /\ RegIdle /\ ItemIdle /\ ItemsIdle /\ FilterIdle /\ CloneIdle
    /\ raw \in RawInputs
    /\ item = NoItem
    /\ crashed = FALSE

ParseLine ==
    /\ pc = "idle"
    /\ LET r == NewLogItem(raw)
       IN  /\ item' = r.item
           /\ crashed' = r.panic
    /\ pc' = "NewLogItem"
    /\ UNCHANGED <<raw, escVars, regVars, itemVars, itemsVars, filterVars,
                   cloneVars>>

WrapLiteral ==
    /\ pc = "idle"
    /\ \E now \in Clock : item' = NewLogItemFromString(raw, now)
    /\ pc' = "NewLogItemFromString"
    /\ UNCHANGED <<raw, crashed, escVars, regVars, itemVars, itemsVars,
                   filterVars, cloneVars>>

NextParse == ParseLine \/ WrapLiteral

SpecParse == InitParse /\ [][NextParse]_vars

----------------------------------------------------------------------------
(* Claims about NewLogItem *)

Content == Take(raw, Len(raw) - 1)

\* C4 (as claimed): NewLogItem is total: every raw input, the empty one
\* included, yields a record and no call fails.
C4_ParseIsTotal == pc = "NewLogItem" => ~crashed

\* C8: for a raw line ending in a newline, Timestamp is the text before the
\* first space and Bytes is the text after it (the remaining tokens joined by
\* single spaces), so Timestamp, a space and Bytes make up the content again;
\* with no space in the content Bytes is empty and Timestamp is the content.
C8_ParseSplitsTimestamp ==
    (pc = "NewLogItem" /\ ~crashed /\ <<raw[Len(raw)]>> = UTF8(<<"\n">>)) =>
        /\ space[1] \notin Range(item.Timestamp)
        /\ IF space[1] \notin Range(Content)
           THEN item.Timestamp = Content /\ item.Bytes = <<>>
           ELSE Content = item.Timestamp \o space \o item.Bytes

C8_Witness ==
    /\ pc = "NewLogItem"
    /\ raw = UTF8(<<"T", " ", "m", " ", "m", "\n">>)
    /\ item.Timestamp = UTF8(<<"T">>)
    /\ item.Bytes = UTF8(<<"m", " ", "m">>)

----------------------------------------------------------------------------
(* Specification SpecEsc: a message goes through the substitution, and the
   rewritten message goes through it again (a record whose Bytes were taken
   from an earlier rendering). *)

EscAlphabet == {"[", "]", "w", "!"}

Warn == <<"[", "w", "a", "r", "n", "]">>

EscInputs == SeqsUpTo(EscAlphabet, MaxMsg) \cup {Warn}

InitEsc ==
    /\ pc = "idle"
    /\ ParseIdle /\ RegIdle /\ ItemIdle /\ ItemsIdle /\ FilterIdle /\ CloneIdle
    /\ \E m \in EscInputs : texts = <<m>>

EscapePass ==
    /\ Len(texts) <= MaxPasses
    /\ texts' = Append(texts, EscReplaceAll(texts[Len(texts)]))
    /\ pc' = "ReplaceAll"
    /\ UNCHANGED <<parseVars, regVars, itemVars, itemsVars, filterVars, cloneVars>>

NextEsc == EscapePass

SpecEsc == InitEsc /\ [][NextEsc]_vars

----------------------------------------------------------------------------
(* Claims about the escape substitution *)

\* s[i..e] is a bracket token: "[", class characters, "[" characters, "]"
IsToken(s, i, e) ==
    /\ s[i] = "["
    /\ s[e] = "]"
    /\ \E k \in (i + 2)..e :
        /\ \A j \in (i + 1)..(k - 1) : s[j] \in TagChars
        /\ \A j \in k..(e - 1) : s[j] = "["

TokenEnds(s) == {e \in 1..Len(s) : \E i \in 1..e : IsToken(s, i, e)}

HasToken(s) == TokenEnds(s) # {}

\* t is s with one "[" put in front of the "]" closing each bracket token
InsertsBrackets(s, t) ==
    LET ends == TokenEnds(s)
        shift(p) == Cardinality({e \in ends : e <= p})
    IN  /\ Len(t) = Len(s) + Cardinality(ends)
        /\ \A p \in 1..Len(s) : t[p + shift(p)] = s[p]
        /\ \A e \in ends : t[e + shift(e) - 1] = "["

\* C3 (as claimed): a message with no bracket token is left unchanged, and a
\* rewritten message no longer matches the pattern, so that a second
\* application changes nothing.
C3_EscapeIsIdempotent ==
    /\ (Len(texts) >= 2 /\ ~HasToken(texts[1])) => texts[2] = texts[1]
    /\ Len(texts) >= 3 => (~HasToken(texts[2]) /\ texts[3] = texts[2])

\* C3 (amended): a message with no bracket token is left unchanged; every
\* bracket token gets one "[" in front of its closing "]" ("[warn]" becomes
\* "[warn[]"); the rewritten token still matches the pattern, so each further
\* application puts in one more "[" ("[warn[[]") instead of changing nothing.
C3_EscapeInsertsBracket ==
    /\ \A k \in 1..(Len(texts) - 1) :
        /\ InsertsBrackets(texts[k], texts[k + 1])
        /\ ~HasToken(texts[k]) => texts[k + 1] = texts[k]
        /\ HasToken(texts[k]) =>
            /\ texts[k + 1] # texts[k]
            /\ Cardinality(TokenEnds(texts[k + 1])) = Cardinality(TokenEnds(texts[k]))
    /\ (Len(texts) >= 2 /\ texts[1] = Warn) =>
            texts[2] = <<"[", "w", "a", "r", "n", "[", "]">>
    /\ (Len(texts) >= 3 /\ texts[1] = Warn) =>
            texts[3] = <<"[", "w", "a", "r", "n", "[", "[", "]">>

C3_Witness ==
    /\ Len(texts) >= 3
    /\ texts[1] = Warn
    /\ texts[2] = <<"[", "w", "a", "r", "n", "[", "]">>
    /\ texts[3] # texts[2]

----------------------------------------------------------------------------
(* Specification SpecItem: modifiers are registered and a record, drawn at
   the start with the colour it is painted in, is rendered *)

Rep(c, n) == [i \in 1..n |-> c]

Record(pod, container, ts, single, bytes) ==
    [Pod |-> pod, Container |-> container, Timestamp |-> ts,
     SingleContainer |-> single, Bytes |-> bytes]

\* the records rendered: with and without pod and container, in and out of
\* single-container mode, timestamps shorter than, as long as and longer
\* than the column, one of 15 characters that take 29 bytes, messages with
\* and without bracket tokens
ItemPool ==
    { Record(<<>>, <<>>, <<"T">>, FALSE, <<"{", "a", "}">>),
      Record(<<"U", "U", "V">>, <<"c">>, Rep("9", TimestampWidth), FALSE,
             <<"[", "w", "]">>),
      Record(<<"U", "U", "V">>, <<"c">>, Rep("9", TimestampWidth + 1), TRUE,
             <<"a", " ", "a">>),
      Record(<<>>, <<"c">>, <<"T">>, FALSE, <<>>),
      Record(<<>>, <<"c">>, <<>>, TRUE, <<"A">>),
      Record(<<"p">>, <<>>, Rep("9", TimestampWidth - 1), FALSE, <<"T">>),
      Record(<<>>, <<>>, Rep("U+00E9", TimestampWidth \div 2 - 1) \o <<"T">>, FALSE,
             <<"U+1F600">>) }

Paints == {0, 208}

RegNames == {"zap-pretty", "X"}

RenderNames == RegNames \cup {"Y"}

Registrable == {Nil, ZapPretty} \cup UserModifiers

InitItem ==
    /\ pc = "idle"
    /\ ParseIdle /\ EscIdle /\ ItemsIdle /\ FilterIdle /\ CloneIdle
    /\ logModifiers = InitRegistry
    /\ regLog = <<>>
    /\ \E it \in ItemPool, paint \in Paints :
        lastRender = [NoRender EXCEPT !.it = it, !.paint = paint]

RegisterLogModifier ==
    /\ Len(regLog) < MaxRegs
    /\ \E name \in RegNames, m \in Registrable :
        /\ logModifiers' = SetModifier(logModifiers, name, m)
        /\ regLog' = Append(regLog, [name |-> name, modifier |-> m])
    /\ pc' = "RegisterLogModifier"
    /\ UNCHANGED <<parseVars, escVars, itemVars, itemsVars, filterVars, cloneVars>>

LogItemRender ==
    /\ \E showTime \in BOOLEAN, modifier \in RenderNames :
        lastRender' = [lastRender EXCEPT
                         !.showTime = showTime,
                         !.modifier = modifier,
                         !.at = Len(regLog),
                         !.out = Render(lastRender.it, lastRender.paint, showTime,
                                        modifier, logModifiers)]
    /\ pc' = "Render"
    /\ UNCHANGED <<parseVars, escVars, regVars, itemsVars, filterVars, cloneVars>>

NextItem == RegisterLogModifier \/ LogItemRender

SpecItem == InitItem /\ [][NextItem]_vars

----------------------------------------------------------------------------
(* Claims about LogItem.Render and the registry *)

\* the modifier of the last call in log made under name; with no such call,
\* what start-up left under name
RECURSIVE LastRegistered(_, _)
LastRegistered(log, name) ==
    IF Len(log) = 0 THEN (IF name = "zap-pretty" THEN ZapPretty ELSE Nil)
    ELSE IF log[Len(log)].name = name THEN log[Len(log)].modifier
    ELSE LastRegistered(SubSeq(log, 1, Len(log) - 1), name)

\* what rendering under name must return after the calls in log
Expected(it, paint, showTime, name, log) ==
    LET m == LastRegistered(log, name)
        line == AssembleLine(it, paint, showTime)
    IN  IF m = Nil THEN line ELSE Modify(m, line)

\* C5: after any sequence of RegisterLogModifier calls, rendering under a
\* name returns the output of the modifier most recently registered under
\* that name applied to the assembled line, and the assembled line itself
\* under a name never registered (or last registered with a nil modifier);
\* calls made under other names do not count.
C5_RenderUsesLatestModifier ==
    /\ pc = "Render" =>
         lastRender.out = Expected(lastRender.it, lastRender.paint,
                                   lastRender.showTime, lastRender.modifier,
                                   SubSeq(regLog, 1, lastRender.at))
    /\ \A name \in RenderNames, showTime \in BOOLEAN :
         Render(lastRender.it, lastRender.paint, showTime, name, logModifiers)
             = Expected(lastRender.it, lastRender.paint, showTime, name, regLog)

C5_Witness ==
    /\ pc = "Render"
    /\ Len(regLog) = 2
    /\ regLog[1].name = "X" /\ regLog[1].modifier = "M1"
    /\ regLog[2].name = "X" /\ regLog[2].modifier = "M2"
    /\ lastRender.modifier = "X"
    /\ lastRender.at = 2
    /\ lastRender.out = <<"2", ":">>
           \o AssembleLine(lastRender.it, lastRender.paint, lastRender.showTime)

ColumnOpen == <<"ESC", "[", "3", "8", ";", "5", ";", "1", "0", "6", "m">>

ColumnClose == <<"ESC", "[", "0", "m", " ">>

\* the pod, container and message parts of a rendered record
RecordParts(it, paint) ==
    (IF it.Pod = <<>> THEN <<>>
     ELSE ANSIColorize(it.Pod, paint) \o <<":">>)
    \o (IF it.SingleContainer \/ it.Container = <<>> THEN <<>>
        ELSE ANSIColorize(it.Container, paint) \o <<" ">>)
    \o EscReplaceAll(it.Bytes)

\* b starts with the timestamp column of it: the colour-106 escape, the
\* whole Timestamp, spaces up to a width of 30 characters, the reset and
\* one space.  ColumnWidth is the number of characters of the padded
\* Timestamp: 30 for a shorter one, its own length otherwise.
ColumnWidth(it) ==
    IF Len(it.Timestamp) < TimestampWidth
    THEN TimestampWidth
    ELSE Len(it.Timestamp)

StartsWithColumn(b, it) ==
    LET w == ColumnWidth(it)
        n == Len(ColumnOpen)
    IN  /\ Len(b) >= n + w + Len(ColumnClose)
        /\ SubSeq(b, 1, n) = ColumnOpen
        /\ SubSeq(b, n + 1, n + Len(it.Timestamp)) = it.Timestamp
        /\ \A j \in (Len(it.Timestamp) + 1)..w : b[n + j] = " "
        /\ SubSeq(b, n + w + 1, n + w + Len(ColumnClose)) = ColumnClose

AfterColumn(b, it) == Drop(b, Len(ColumnOpen) + ColumnWidth(it) + Len(ColumnClose))

\* b is the rendering of it with the column iff showTime
ShowsTimestampIff(b, it, paint, showTime) ==
    IF showTime
    THEN StartsWithColumn(b, it) /\ AfterColumn(b, it) = RecordParts(it, paint)
    ELSE b = RecordParts(it, paint) /\ ~StartsWithColumn(b, it)

\* C9 (as claimed, for a call under a name no modifier is registered
\* under, so that the output is the line the record is assembled into):
\* when showTimestamp is true the output of LogItem.Render starts with the
\* colorized Timestamp padded with spaces to a width of at least 30
\* characters, never cut, followed by one space; when it is false the
\* output has no such column and starts with the pod/container/message
\* parts.
C9_OutputShowsTimestampIff ==
    (/\ pc = "Render"
     /\ LastRegistered(SubSeq(regLog, 1, lastRender.at), lastRender.modifier) = Nil)
        => ShowsTimestampIff(lastRender.out, lastRender.it, lastRender.paint,
                             lastRender.showTime)

----------------------------------------------------------------------------
(* Specification SpecItems: a collection is rendered for display *)

\* records sharing an identity (as pod or as container) whose code points
\* add up to 256, a record of the empty identity, a record of an identity
\* whose colour is fixed (its code points add up to 598)
ColorPool ==
    { Record(<<"U", "U", "V">>, <<"c">>, <<"T">>, FALSE, <<"x">>),
      Record(<<>>, <<"U", "U", "V">>, <<"T">>, FALSE, <<"z">>),
      Record(<<>>, <<>>, <<"T">>, FALSE, <<"x">>),
      Record(<<"m", "y", "-", "p", "o", "d">>, <<>>, <<"T">>, FALSE, <<"x">>) }

InitItems ==
    /\ pc = "idle"
    /\ ParseIdle /\ EscIdle /\ RegIdle /\ ItemIdle
    /\ FilterIdle /\ CloneIdle
    /\ items \in SeqsUpTo(ColorPool, MaxItems)
    /\ \E n \in 0..MaxBuffer :
        rendered = [NoRendered EXCEPT !.call.ll = Buffer(n)]

\* the iterations a call enters: one per record, up to and including the
\* first the buffer has no room for
Entered ==
    1..(IF Len(rendered.call.ll) < Len(items) THEN Len(rendered.call.ll) + 1
        ELSE Len(items))

LogItemsRender ==
    /\ pc = "idle"
    /\ \E showTime \in BOOLEAN, rnd \in [Entered -> 0..(BandWidth - 1)] :
        rendered' = [showTime |-> showTime, modifier |-> "",
                     call |-> ItemsRender(items, showTime, "", logModifiers,
                                          rnd, rendered.call.ll)]
    /\ pc' = "ItemsRender"
    /\ UNCHANGED <<parseVars, escVars, regVars, itemVars, items, filterVars,
                   cloneVars>>

NextItems == LogItemsRender

SpecItems == InitItems /\ [][NextItems]_vars

----------------------------------------------------------------------------
(* Claims about LogItems.Render *)

\* the records a call got to render: all of them, or as many as the buffer
\* has room for when the call panicked
Written == 1..Len(rendered.call.paints)

\* C6: within one LogItems.Render call, records with the same ID() are
\* rendered in the same colour, also when the identity's code points add up
\* to 0 modulo 256 and colorFor draws the colour at random.  The call panics
\* exactly when the buffer is shorter than the collection; the lines it wrote
\* are those of the records it reached, and the rest of the buffer is as it
\* was.
C6_SameIdentitySameColor ==
    LET call == rendered.call
    IN  pc = "ItemsRender" =>
            /\ call.panic <=> Len(call.ll) < Len(items)
            /\ Len(call.paints) = IF call.panic THEN Len(call.ll)
                                  ELSE Len(items)
            /\ \A i \in Written :
                /\ call.ll[i] = Render(items[i], call.paints[i],
                                       rendered.showTime, rendered.modifier,
                                       logModifiers)
                /\ IF RuneSum(ID(items[i])) % 256 = 0
                   THEN call.paints[i] \in 207..216
                   ELSE call.paints[i] = RuneSum(ID(items[i])) % 256
            /\ \A i \in (1..Len(call.ll)) \ Written : call.ll[i] = OldLine
            /\ \A i, j \in Written :
                ID(items[i]) = ID(items[j]) => call.paints[i] = call.paints[j]

C6_Witness ==
    /\ pc = "ItemsRender"
    /\ Len(items) = 2
    /\ items[1] # items[2]
    /\ ID(items[1]) = <<"U", "U", "V">>
    /\ ID(items[2]) = <<"U", "U", "V">>
    /\ ~rendered.call.panic
    /\ rendered.call.paints = <<213, 213>>
    /\ rendered.call.ll[1] # rendered.call.ll[2]

----------------------------------------------------------------------------
(* Specification SpecFilter: a collection is filtered by a pattern, and then
   by the inverse query made of the inverse sentinel and the same pattern *)

\* a line where "a" occurs twice behind a coloured pod, a line holding a
\* rune of two bytes and, behind it, the sentinels' characters, which the
\* built-in modifier reformats
FilterPool ==
    { Record(<<"p">>, <<>>, <<"T">>, FALSE, <<"a", " ", "a">>),
      Record(<<>>, <<"c">>, <<>>, TRUE,
             <<"{", "U+00E9", "-", "f", "A", "!", "k", "}">>) }

QueryAlphabet == {"a", "!", "-", "f"}

\* patterns with the operators of the regular expression syntax, well formed
\* and not, among them repetitions of repetitions that may take nothing,
\* runes outside ASCII, Unicode classes and named groups, and fuzzy queries
\* with white space around the pattern
OperatorQueries ==
    { <<".">>, <<"a", ".">>, <<"f", ".", "*">>, <<"(", "a", ")">>, <<"(">>,
      <<"a", "(">>, <<"(", ")">>, <<"a", ")">>, <<"a", "|", "f">>, <<"[">>, <<"[", "a", "f", "]">>,
      <<"[", "^", "a", "]">>, <<"[", "z", "-", "a", "]">>, <<"*">>, <<"+">>,
      <<"?">>, <<"a", "*">>, <<"a", "+", "?">>, <<"a", "*", "*">>,
      <<"a", "{", "2", "}">>, <<"{">>, <<"\\">>, <<"\\", ".">>,
      <<"(", "?", ":", "a", "*", "?", ")", "+", "\\", "B">>,
      <<"(", "f", "*", "|", "a", ")", "*", "!">>,
      <<"\\", "d">>, <<"\\", "e">>, <<"^", "a">>, <<"!", "$">>,
      <<"(", "?", "-", "i", ")", "a">>, <<"(", "?", "a", ")">>,
      <<"-", "f", " ", "a", "\t">>, <<"-", "f", "\r", "a", "NBSP">>,
      <<"U+00C9", ".">>, <<"\\", "x", "{", "2", "1", "2", "a", "}">>,
      <<"[", "^", "U+212A", "]", "}">>, <<"\\", "p", "L">>, <<"\\", "p">>,
      <<"\\", "P", "{", "L", "a", "t", "i", "n", "}">>,
      <<"[", "\\", "p", "{", "^", "L", "u", "}", "]", "-">>,
      <<"\\", "p", "{", "l", "}">>, <<"\\", "p", "{", "L">>,
      <<"(", "?", "P", "<", "n", ">", "f", ")">>, <<"(", "?", "<", "n", "_", "1", ">", "a", ")">>,
      <<"(", "?", "P", "<", ">", "a", ")">>, <<"(", "?", "<", "n">> }

Queries == SeqsUpTo(QueryAlphabet, MaxQuery) \cup OperatorQueries

InitFilter ==
    /\ pc = "idle"
    /\ ParseIdle /\ EscIdle /\ RegIdle /\ ItemIdle /\ CloneIdle
    /\ rendered = NoRendered
    /\ items \in SeqsUpTo(FilterPool, MaxItems)
    /\ \E q \in Queries, showTime \in BOOLEAN, modifier \in {"", "zap-pretty"} :
        query = [q |-> q, showTime |-> showTime, modifier |-> modifier]
    /\ filtered = NoResult
    /\ inverted = NoResult

FilterPlain ==
    /\ pc = "idle"
    /\ filtered' = Filter(items, query.q, query.showTime, query.modifier,
                          logModifiers)
    /\ pc' = "Filter"
    /\ UNCHANGED <<parseVars, escVars, regVars, itemVars, itemsVars, cloneVars,
                   query, inverted>>

FilterInverse ==
    /\ pc = "Filter"
    /\ inverted' = Filter(items, <<"!">> \o query.q, query.showTime,
                          query.modifier, logModifiers)
    /\ pc' = "FilterInverse"
    /\ UNCHANGED <<parseVars, escVars, regVars, itemVars, itemsVars, cloneVars,
                   query, filtered>>

NextFilter == FilterPlain \/ FilterInverse

SpecFilter == InitFilter /\ [][NextFilter]_vars

----------------------------------------------------------------------------
(* Claims about LogItems.Filter *)

IndexRange == 0..(Len(items) - 1)

Complementary(a, b) ==
    /\ Range(a.matches) \cap Range(b.matches) = {}
    /\ Range(a.matches) \cup Range(b.matches) = IndexRange

\* C1 (as claimed): for every pattern P, the empty one and those beginning
\* with a sentinel included, the indices matched by the inverse query are
\* the complement, within the index range, of the indices matched by P.
C1_InverseIsComplement ==
    (pc = "FilterInverse" /\ filtered.err = Nil /\ inverted.err = Nil) =>
        Complementary(filtered, inverted)

\* C1 (amended): for every non-empty pattern P that compiles as a regular
\* expression and does not itself begin with the inverse or the fuzzy
\* sentinel, the indices matched by the inverse query are the complement,
\* within the index range, of the indices matched by P.
C1_InverseIsComplementOfRegex ==
    (/\ pc = "FilterInverse"
     /\ query.q # <<>>
     /\ ~IsInverseSelector(query.q)
     /\ ~IsFuzzySelector(query.q)
     /\ filtered.err = Nil) =>
        /\ inverted.err = Nil
        /\ Complementary(filtered, inverted)

C1_Witness ==
    /\ pc = "FilterInverse"
    /\ query.q = <<"f">>
    /\ Len(items) = 2
    /\ filtered.matches = <<1>>
    /\ inverted.matches = <<0>>

\* the positions, byte offsets, covered by any occurrence of rx in line
AllOccurrences(rx, line) ==
    {p \in 0..(ByteOffset(line, Len(line)) - 1) :
        \E i \in 0..(Len(line) - 1) :
            /\ MatchEnd(rx, Runes(line), i) >= 0
            /\ ByteOffset(line, i) <= p
            /\ p < ByteOffset(line, MatchEnd(rx, Runes(line), i))}

RenderedLine(i) ==
    Render(items[i + 1], 0, query.showTime, query.modifier, logModifiers)

\* C2 (as claimed): in the regex path, the highlight set of a kept line is
\* every position covered by an occurrence of the pattern in the rendered
\* line, all occurrences counted; for the inverse query every highlight set
\* is empty.
C2_HighlightsEveryOccurrence ==
    /\ (/\ pc \in {"Filter", "FilterInverse"}
        /\ query.q # <<>>
        /\ ~IsInverseSelector(query.q)
        /\ ~IsFuzzySelector(query.q)
        /\ filtered.err = Nil) =>
          \A k \in 1..Len(filtered.matches) :
              Range(filtered.indices[k])
                  = AllOccurrences(Compile(query.q).re,
                                   RenderedLine(filtered.matches[k]))
    /\ pc = "FilterInverse" =>
          \A k \in 1..Len(inverted.indices) : inverted.indices[k] = <<>>

\* the part of the query q handed to regexp.Compile
Remainder(q) == IF IsInverseSelector(q) THEN Tail(q) ELSE q

\* patterns the regexp parser refuses: a group left open or closed twice, a
\* bracket left open, a range the wrong way round, a repetition of nothing or
\* of a repetition, a backslash before nothing or before a letter that is no
\* escape, a flag that does not exist, a Unicode class without a name, of a
\* name that is no table or left open, a group without a name or whose name
\* is left open
RefusedPatterns ==
    { <<"(">>, <<"a", "(">>, <<"a", ")">>, <<"[">>, <<"[", "z", "-", "a", "]">>,
      <<"*">>, <<"+">>, <<"?">>, <<"a", "*", "*">>, <<"\\">>, <<"\\", "e">>,
      <<"(", "?", "a", ")">>, <<"\\", "p">>, <<"\\", "p", "{", "l", "}">>,
      <<"\\", "p", "{", "L">>, <<"(", "?", "P", "<", ">", "a", ")">>,
      <<"(", "?", "<", "n">> }

\* the regex remainder of the query q does not compile
ErrorExpected(q) ==
    /\ q # <<>>
    /\ ~IsFuzzySelector(q)
    /\ Compile(Remainder(q)).err # Nil

AnswersAsC7(q, res) ==
    /\ (q # <<>> /\ ~IsFuzzySelector(q) /\ Remainder(q) \in RefusedPatterns) =>
         ErrorExpected(q)
    /\ (Remainder(q) \in OperatorQueries \ RefusedPatterns) => ~ErrorExpected(q)
    /\ ErrorExpected(q) =>
         res.err # Nil /\ res.matches = <<>> /\ res.indices = <<>>
    /\ (q = <<>> \/ IsFuzzySelector(q)) => res.err = Nil
    /\ q = <<>> => (res.matches = <<>> /\ res.indices = <<>>)
    /\ ~ErrorExpected(q) => res.err = Nil

\* C7: when the regex remainder of the query does not compile, Filter
\* returns the error with no matched index and no highlight, in plain and in
\* inverse mode, whatever the collection; for the empty query and for a
\* fuzzy query it never returns an error.
C7_InvalidPatternYieldsErrorOnly ==
    /\ pc \in {"Filter", "FilterInverse"} => AnswersAsC7(query.q, filtered)
    /\ pc = "FilterInverse" => AnswersAsC7(<<"!">> \o query.q, inverted)

C7_Witness ==
    /\ pc = "FilterInverse"
    /\ query.q = <<"a", "(">>
    /\ Len(items) = 2
    /\ filtered.err # Nil /\ filtered.matches = <<>>
    /\ inverted.err # Nil /\ inverted.matches = <<>>

----------------------------------------------------------------------------
(* Specification SpecClone: a record is cloned; bytes of the original and of
   the clone are overwritten, before and after.  Every byte of a buffer can
   be overwritten, the bytes inside a longer rune too, and a byte written
   need not leave the buffer valid UTF-8. *)

\* the bytes written: the byte of "x" and the two bytes of U+00E9
WriteBytes == Range(UTF8(<<"x", "U+00E9">>))

InitClone ==
    /\ pc = "idle"
    /\ ParseIdle /\ EscIdle /\ RegIdle /\ ItemIdle /\ ItemsIdle /\ FilterIdle
    /\ \E it \in ItemPool :
        /\ heap = <<UTF8(it.Bytes)>>
        /\ orig = [it EXCEPT !.Bytes = 1]
        /\ shadow = [orig |-> UTF8(it.Bytes), clone |-> <<>>, writes |-> 0]
    /\ clone = NoItem

LogItemClone ==
    /\ pc = "idle"
    /\ LET r == Clone(heap, orig)
       IN  /\ heap' = r.heap
           /\ clone' = r.item
    /\ shadow' = [shadow EXCEPT !.clone = shadow.orig]
    /\ pc' = "Clone"
    /\ UNCHANGED <<parseVars, escVars, regVars, itemVars, itemsVars, filterVars,
                   orig>>

\* l.Bytes[i] = c on the original: one byte of the buffer is stored
WriteOriginal ==
    /\ shadow.writes < MaxWrites
    /\ \E i \in 1..Len(heap[orig.Bytes]), c \in WriteBytes :
        /\ heap' = [heap EXCEPT ![orig.Bytes][i] = c]
        /\ shadow' = [shadow EXCEPT !.orig[i] = c, !.writes = @ + 1]
    /\ pc' = IF pc = "idle" THEN "idle" ELSE "Write"
    /\ UNCHANGED <<parseVars, escVars, regVars, itemVars, itemsVars, filterVars,
                   orig, clone>>

\* l.Bytes[i] = c on the clone: one byte of the buffer is stored
WriteClone ==
    /\ pc # "idle"
    /\ shadow.writes < MaxWrites
    /\ \E i \in 1..Len(heap[clone.Bytes]), c \in WriteBytes :
        /\ heap' = [heap EXCEPT ![clone.Bytes][i] = c]
        /\ shadow' = [shadow EXCEPT !.clone[i] = c, !.writes = @ + 1]
    /\ pc' = "Write"
    /\ UNCHANGED <<parseVars, escVars, regVars, itemVars, itemsVars, filterVars,
                   orig, clone>>

NextClone == LogItemClone \/ WriteOriginal \/ WriteClone

SpecClone == InitClone /\ [][NextClone]_vars

----------------------------------------------------------------------------
(* Claims about LogItem.Clone *)

\* the Bytes of the record that was drawn to be cloned
ClonedBytes == (CHOOSE it \in ItemPool : [it EXCEPT !.Bytes = 1] = orig).Bytes

\* C10: the clone's Pod, Container, Timestamp, SingleContainer and byte
\* content equal the original's when it is made, and its buffer is its own:
\* after any writes of single bytes each record reads what was written
\* through it, and the writes made through the other record do not show;
\* no write changes the length of a buffer.
C10_CloneIsIndependent ==
    pc # "idle" =>
        /\ clone.Pod = orig.Pod
        /\ clone.Container = orig.Container
        /\ clone.Timestamp = orig.Timestamp
        /\ clone.SingleContainer = orig.SingleContainer
        /\ pc = "Clone" => heap[clone.Bytes] = heap[orig.Bytes]
        /\ heap[orig.Bytes] = shadow.orig
        /\ heap[clone.Bytes] = shadow.clone
        /\ Len(heap[clone.Bytes]) = Len(heap[orig.Bytes])
        /\ Len(heap[orig.Bytes]) = Len(UTF8(ClonedBytes))

\* a byte inside the four-byte rune is overwritten in the clone, another in
\* the original
C10_Witness ==
    /\ pc = "Write"
    /\ shadow.writes = 2
    /\ ClonedBytes = <<"U+1F600">>
    /\ heap[clone.Bytes] = [UTF8(ClonedBytes) EXCEPT ![2] = UTF8(<<"x">>)[1]]
    /\ heap[orig.Bytes] = [UTF8(ClonedBytes) EXCEPT ![3] = UTF8(<<"U+00E9">>)[2]]

====
